---- MODULE Spec2Model ----
(***************************************************************************)
(* Grid layout engine of the dashboard builder: the collision resolver,    *)
(* the parent-containment constrainer, the ghost (placement validator)     *)
(* and the editor operations that commit layouts.                          *)
(*                                                                         *)
(* A block is a record                                                     *)
(*   [id, type, position, parentBlockId, stackDirection]                   *)
(* with position = [colStart, colSpan, rowStart, rowSpan].  A missing      *)
(* parentBlockId is NoParent; a missing heroProperties is "none".          *)
(* The blocks array is a sequence: Array.find, the stable sort and         *)
(* Object.keys all depend on the order.                                    *)
(***************************************************************************)
EXTENDS Integers, Sequences, FiniteSets, TLC

VARIABLES
    blocks,        \* state.blocks (App.tsx), the committed layout
    gridColumns,   \* state.gridColumns
    interaction,   \* GridCanvas interaction state, or NoInteraction
    ghostBlock,    \* GridCanvas ghostBlock state, or NoGhost
    selectedBlockIds, \* state.selectedBlockIds, as a set
    nextId,        \* next fresh block id (ids are unique timestamps in the code)
    dragStart,     \* history: state.blocks when the interaction in progress started
    opCount,       \* history: layout operations carried out so far
    last,          \* history: the last operation and what it did
    history,       \* App.tsx history: the undo stack of HistoryData records
    future,        \* App.tsx future: the redo stack
    heap,          \* the block objects the arrays of blocks, history and future hold
    objs,          \* the object behind each element of state.blocks
    recording      \* whether the specification observes the undo stack

vars == <<blocks, gridColumns, interaction, ghostBlock, selectedBlockIds, nextId,
          dragStart, opCount, last,
         history, future, heap, objs, recording>>

\* the undo stack and the objects it shares with state.blocks
hvars == <<history, future, heap, objs, recording>>

\* the undo stack is left out of the specifications whose claims do not read
\* it: saveCheckpoint then records nothing
NotRecorded ==
    /\ history = <<>>
    /\ future = <<>>
    /\ heap = <<>>
    /\ objs = <<>>
    /\ recording = FALSE

----------------------------------------------------------------------------
(* Types and constants of the program *)

HERO == "hero_section"
STATS == "stats_tile"
CHART == "analytics_panel"

NoParent == 0
MIN_CHILD_COLS == 1
MIN_CHILD_ROWS == 3
MIN_HERO_ROWS == 5
MaxIterations == 100
GRID_COLS == 12

Max(a, b) == IF a >= b THEN a ELSE b
Min(a, b) == IF a <= b THEN a ELSE b

Pos(c, w, r, h) == [colStart |-> c, colSpan |-> w, rowStart |-> r, rowSpan |-> h]

Block(id, type, pos, parent, stack) ==
    [id |-> id, type |-> type, position |-> pos,
     parentBlockId |-> parent, stackDirection |-> stack]

\* blocks.find(b => b.id === id): the index of the first match, 0 when none
FindIndex(bs, id) ==
    IF \E k \in 1..Len(bs) : bs[k].id = id
    THEN CHOOSE k \in 1..Len(bs) :
            /\ bs[k].id = id
            /\ \A m \in 1..(k - 1) : bs[m].id # id
    ELSE 0

Ids(bs) == {bs[k].id : k \in 1..Len(bs)}

----------------------------------------------------------------------------
(* Collision and layout helpers (GridCanvas.tsx) *)

isHorizontalOverlap(a, b) ==
    IF a.colStart + a.colSpan <= b.colStart THEN FALSE
    ELSE IF a.colStart >= b.colStart + b.colSpan THEN FALSE
    ELSE TRUE

isBufferViolationOffByOne(a, b) ==
    IF (a.parentBlockId # NoParent /\ a.parentBlockId = b.id)
       \/ (b.parentBlockId # NoParent /\ b.parentBlockId = a.id)
    THEN FALSE
    ELSE IF ~isHorizontalOverlap(a.position, b.position) THEN FALSE
    ELSE IF a.position.rowStart + a.position.rowSpan <= b.position.rowStart + 1 THEN FALSE
    ELSE IF b.position.rowStart + b.position.rowSpan <= a.position.rowStart + 1 THEN FALSE
    ELSE TRUE

isBufferViolation(a, b) ==
    IF (a.parentBlockId # NoParent /\ a.parentBlockId = b.id)
       \/ (b.parentBlockId # NoParent /\ b.parentBlockId = a.id)
    THEN FALSE
    ELSE IF ~isHorizontalOverlap(a.position, b.position) THEN FALSE
    ELSE IF a.position.rowStart + a.position.rowSpan <= b.position.rowStart THEN FALSE
    ELSE IF b.position.rowStart + b.position.rowSpan <= a.position.rowStart THEN FALSE
    ELSE TRUE

\* parent.heroProperties?.stackDirection || 'horizontal'
StackDir(parent) ==
    IF parent.stackDirection = "vertical" THEN "vertical" ELSE "horizontal"

\* mutant of constrainToParent: the far-edge clamp of the start uses the
\* child's size from before the size was capped to the interior
constrainToParentEarlyEdge(childPos, parent) ==
    LET pCol == parent.position.colStart
        pRow == parent.position.rowStart
        pSpan == parent.position.colSpan
        pSpanH == parent.position.rowSpan
        minRow == pRow + 1
        maxRowInclusive == pRow + pSpanH - 1 - 1
        minCol == pCol
        maxColInclusive == pCol + pSpan - 1
        availableWidth == Max(1, pSpan)
        availableHeight == Max(1, pSpanH - 2)
        vertical == StackDir(parent) = "vertical"
        colStart0 == IF vertical THEN minCol ELSE childPos.colStart
        colSpan0 == IF vertical THEN availableWidth ELSE childPos.colSpan
        rowStart0 == IF vertical THEN childPos.rowStart ELSE minRow
        rowSpan0 == IF vertical THEN childPos.rowSpan ELSE availableHeight
        rowStart1 == IF rowStart0 < minRow THEN minRow ELSE rowStart0
        rowStart2 == IF rowStart1 + rowSpan0 - 1 > maxRowInclusive
                     THEN maxRowInclusive - rowSpan0 + 1 ELSE rowStart1
        rowSpan1 == IF rowSpan0 > availableHeight THEN availableHeight ELSE rowSpan0
        colStart1 == IF colStart0 < minCol THEN minCol ELSE colStart0
        colStart2 == IF colStart1 + colSpan0 - 1 > maxColInclusive
                     THEN maxColInclusive - colSpan0 + 1 ELSE colStart1
        colSpan1 == IF colSpan0 > availableWidth THEN availableWidth ELSE colSpan0
    IN  Pos(colStart2, colSpan1, rowStart2, rowSpan1)

constrainToParent(childPos, parent) ==
    LET pCol == parent.position.colStart
        pRow == parent.position.rowStart
        pSpan == parent.position.colSpan
        pSpanH == parent.position.rowSpan
        verticalPadding == 1
        horizontalPadding == 0
        minRow == pRow + verticalPadding
        maxRowInclusive == pRow + pSpanH - 1 - verticalPadding
        minCol == pCol + horizontalPadding
        maxColInclusive == pCol + pSpan - 1 - horizontalPadding
        availableWidth == Max(1, pSpan - (horizontalPadding * 2))
        availableHeight == Max(1, pSpanH - (verticalPadding * 2))
        vertical == StackDir(parent) = "vertical"
        colStart0 == IF vertical THEN minCol ELSE childPos.colStart
        colSpan0 == IF vertical THEN availableWidth ELSE childPos.colSpan
        rowStart0 == IF vertical THEN childPos.rowStart ELSE minRow
        rowSpan0 == IF vertical THEN childPos.rowSpan ELSE availableHeight
        rowSpan1 == IF rowSpan0 > availableHeight THEN availableHeight ELSE rowSpan0
        rowStart1 == IF rowStart0 < minRow THEN minRow ELSE rowStart0
        rowStart2 == IF rowStart1 + rowSpan1 - 1 > maxRowInclusive
                     THEN maxRowInclusive - rowSpan1 + 1 ELSE rowStart1
        colSpan1 == IF colSpan0 > availableWidth THEN availableWidth ELSE colSpan0
        colStart1 == IF colStart0 < minCol THEN minCol ELSE colStart0
        colStart2 == IF colStart1 + colSpan1 - 1 > maxColInclusive
                     THEN maxColInclusive - colSpan1 + 1 ELSE colStart1
    IN  Pos(colStart2, colSpan1, rowStart2, rowSpan1)

\* blocks.map(b => newPositions[b.id] ? {...b, position: newPositions[b.id]} : b)
ApplyOverrides(bs, newPositions) ==
    [k \in 1..Len(bs) |->
        IF bs[k].id \in DOMAIN newPositions
        THEN [bs[k] EXCEPT !.position = newPositions[bs[k].id]]
        ELSE bs[k]]

\* the comparator of updatedBlocks.sort: (rowStart, colStart) ascending
SortsBefore(a, b) ==
    IF a.position.rowStart = b.position.rowStart
    THEN a.position.colStart < b.position.colStart
    ELSE a.position.rowStart < b.position.rowStart

RECURSIVE InsertSorted(_, _)
InsertSorted(sorted, b) ==
    IF sorted = <<>> THEN <<b>>
    ELSE IF SortsBefore(b, Head(sorted)) THEN <<b>> \o sorted
    ELSE <<Head(sorted)>> \o InsertSorted(Tail(sorted), b)

\* Array.prototype.sort is stable: equal keys keep their array order
RECURSIVE SortBlocks(_)
SortBlocks(bs) ==
    IF bs = <<>> THEN <<>>
    ELSE InsertSorted(SortBlocks(SubSeq(bs, 1, Len(bs) - 1)), bs[Len(bs)])

\* lines 119-132: re-clamp block i against its parent, when it has one that exists
Reclamp(bs, i) ==
    LET b1 == bs[i]
        p == FindIndex(bs, b1.parentBlockId)
    IN  IF b1.parentBlockId # NoParent /\ p # 0
        THEN [bs EXCEPT ![i].position = constrainToParent(b1.position, bs[p])]
        ELSE bs

\* mutant of ResolvePair: a collision is resolved by cutting the upper block
\* short where the lower one starts, instead of pushing the lower one down
ResolvePairShrink(st, i, j, movedBlockIds) ==
    LET b1 == st.blocks[i]
        b2 == st.blocks[j]
        b1IsUpper == b1.position.rowStart < b2.position.rowStart
        upper == IF b1IsUpper THEN i ELSE j
        lower == IF b1IsUpper THEN j ELSE i
        room == st.blocks[lower].position.rowStart - st.blocks[upper].position.rowStart
    IN  IF ~isBufferViolation(b1, b2) THEN st
        ELSE IF b1.id \in movedBlockIds /\ b2.id \in movedBlockIds THEN st
        ELSE [blocks |-> [st.blocks EXCEPT ![upper].position.rowSpan = room],
              hasCollision |-> TRUE]

\* lines 136-168: the body of the inner loop for the pair (i, j), i # j
ResolvePair(st, i, j, movedBlockIds) ==
    LET b1 == st.blocks[i]
        b2 == st.blocks[j]
        isB1Moved == b1.id \in movedBlockIds
        isB2Moved == b2.id \in movedBlockIds
    IN  IF ~isBufferViolation(b1, b2) THEN st
        ELSE IF isB1Moved /\ isB2Moved THEN st
        ELSE IF ~isB1Moved /\ ~isB2Moved
        THEN LET b1IsUpper == b1.position.rowStart < b2.position.rowStart
                 upper == IF b1IsUpper THEN i ELSE j
                 lower == IF b1IsUpper THEN j ELSE i
                 tightStart == st.blocks[upper].position.rowStart
                               + st.blocks[upper].position.rowSpan
             IN  IF st.blocks[lower].position.rowStart < tightStart
                 THEN [blocks |-> [st.blocks EXCEPT ![lower].position.rowStart = tightStart],
                       hasCollision |-> TRUE]
                 ELSE st
        ELSE LET static == IF isB1Moved THEN j ELSE i
                 moving == IF isB1Moved THEN i ELSE j
                 movingTop == st.blocks[moving].position.rowStart
                 minStart == st.blocks[static].position.rowStart
                             + st.blocks[static].position.rowSpan
             IN  IF movingTop < minStart
                 THEN [blocks |-> [st.blocks EXCEPT ![moving].position.rowStart = minStart],
                       hasCollision |-> TRUE]
                 ELSE st

RECURSIVE InnerLoop(_, _, _, _)
InnerLoop(st, i, j, movedBlockIds) ==
    IF j > Len(st.blocks) THEN st
    ELSE IF i = j THEN InnerLoop(st, i, j + 1, movedBlockIds)
    ELSE InnerLoop(ResolvePair(st, i, j, movedBlockIds), i, j + 1, movedBlockIds)

RECURSIVE OuterLoop(_, _, _)
OuterLoop(st, i, movedBlockIds) ==
    IF i > Len(st.blocks) THEN st
    ELSE OuterLoop(InnerLoop([st EXCEPT !.blocks = Reclamp(st.blocks, i)],
                             i, 1, movedBlockIds),
                   i + 1, movedBlockIds)

\* while (hasCollision && iterations < 100) { hasCollision = false; iterations++; ... }
\* A pass is a function of the array and the moved set alone (hasCollision is
\* reset at its start).  So when a pass returns the array it was given with
\* hasCollision set, every remaining pass up to the cap repeats it verbatim and
\* the loop exits at iterations = MaxIterations with that array: those passes
\* are not evaluated again one by one.
RECURSIVE WhileLoop(_, _, _)
WhileLoop(st, iterations, movedBlockIds) ==
    IF st.hasCollision /\ iterations < MaxIterations
    THEN LET pass == OuterLoop([blocks |-> st.blocks, hasCollision |-> FALSE],
                               1, movedBlockIds)
         IN  IF pass.hasCollision /\ pass.blocks = st.blocks
             THEN [blocks |-> pass.blocks, hasCollision |-> TRUE,
                   iterations |-> MaxIterations]
             ELSE WhileLoop(pass, iterations + 1, movedBlockIds)
    ELSE [blocks |-> st.blocks, hasCollision |-> st.hasCollision,
          iterations |-> iterations]

\* moveBlock with what its loop ended on: .blocks is the returned array,
\* .hasCollision the flag at loop exit (FALSE: the last pass adjusted nothing)
moveBlockRun(bs, movedBlockIds, newPositions) ==
    WhileLoop([blocks |-> SortBlocks(ApplyOverrides(bs, newPositions)),
               hasCollision |-> TRUE],
              0, movedBlockIds)

moveBlock(bs, movedBlockIds, newPositions) ==
    moveBlockRun(bs, movedBlockIds, newPositions).blocks

\* What the caller's objects hold once moveBlock has returned.  The map of
\* l.97-101 copies a block only when it has an override ({...b, position:
\* newPositions[b.id]}) and puts every other block of the input array into
\* updatedBlocks as it is; the loop then assigns to b1.position (l.130) and to
\* position.rowStart (l.152, l.165) of the elements of updatedBlocks.  So a
\* block of the input array that has no override ends with the position the
\* returned array gives it, and one that has an override is left alone.
moveBlockInput(bs, movedBlockIds, newPositions) ==
    LET out == moveBlock(bs, movedBlockIds, newPositions)
    IN  [k \in 1..Len(bs) |->
            IF bs[k].id \in DOMAIN newPositions THEN bs[k]
            ELSE out[FindIndex(out, bs[k].id)]]

\* The copy of a block that has an override shares its position object with
\* newPositions.  For a block without a parent l.130 never replaces that
\* object, so the rowStart writes of l.152 and l.165 go to the caller's object:
\* it ends with the position the returned array gives the block.  (The object
\* of an overridden child is written to only until the first re-clamp that
\* changes the child; it is not followed here.)
moveBlockOverrides(bs, movedBlockIds, newPositions) ==
    LET out == moveBlock(bs, movedBlockIds, newPositions)
        roots == {id \in DOMAIN newPositions \cap Ids(bs) :
                    bs[FindIndex(bs, id)].parentBlockId = NoParent}
    IN  [id \in roots |-> out[FindIndex(out, id)].position]

----------------------------------------------------------------------------
(* The ghost: calculateGhost (GridCanvas.tsx), on the grid cell that          *)
(* getGridFromPixels returns for the pointer                                  *)

NoInteraction == [type |-> "NONE"]
NoGhost == [present |-> FALSE]

\* the id of the temporary block of a palette drag ('ghost'), never a block's id
GhostId == -1

CellInside(col, row, pos) ==
    /\ col >= pos.colStart
    /\ col < pos.colStart + pos.colSpan
    /\ row >= pos.rowStart
    /\ row < pos.rowStart + pos.rowSpan

\* Object.keys(interaction.initialPositions).length > 1
IsMultiDrag(ia) == ia.type # "NONE" /\ Cardinality(DOMAIN ia.initialPositions) > 1

\* blocks.find(other => HERO && other.id !== draggedBlockId && cell inside): index or 0
PotentialParent(bs, col, row, draggedBlockId) ==
    LET hits == {k \in 1..Len(bs) :
                    /\ bs[k].type = HERO
                    /\ bs[k].id # draggedBlockId
                    /\ CellInside(col, row, bs[k].position)}
    IN  IF hits = {} THEN 0 ELSE CHOOSE k \in hits : \A m \in hits : k <= m

SetMin(S) == CHOOSE x \in S : \A y \in S : x <= y
SetMax(S) == CHOOSE x \in S : \A y \in S : x >= y

\* mutant of checkOverlap: sees an overlap only when the candidate starts inside
\* the sibling
checkOverlapInside(pos, siblingPositions) ==
    \E sp \in siblingPositions : CellInside(pos.colStart, pos.rowStart, sp)

\* checkOverlap(pos) against the positions of the siblings
checkOverlap(pos, siblingPositions) ==
    \E sp \in siblingPositions :
        ~(\/ pos.colStart + pos.colSpan <= sp.colStart
          \/ pos.colStart >= sp.colStart + sp.colSpan
          \/ pos.rowStart + pos.rowSpan <= sp.rowStart
          \/ pos.rowStart >= sp.rowStart + sp.rowSpan)

\* lines 294-314: the repair of an overlapping candidate.  filter(...).sort(...)[0]
\* is a sibling of least rowStart (colStart) at or after the candidate's start;
\* only that coordinate of it is read.
RepairOverlap(tempPos, siblingPositions, stackDir) ==
    IF ~checkOverlap(tempPos, siblingPositions) THEN tempPos
    ELSE IF stackDir = "vertical"
    THEN LET below == {sp.rowStart : sp \in {q \in siblingPositions :
                                                q.rowStart >= tempPos.rowStart}}
         IN  IF below = {} THEN tempPos
             ELSE [tempPos EXCEPT !.rowSpan =
                        Max(MIN_CHILD_ROWS, SetMin(below) - tempPos.rowStart)]
    ELSE LET right == {sp.colStart : sp \in {q \in siblingPositions :
                                                q.colStart >= tempPos.colStart}}
         IN  IF right = {} THEN tempPos
             ELSE [tempPos EXCEPT !.colSpan =
                        Max(MIN_CHILD_COLS, SetMin(right) - tempPos.colStart)]

\* lines 272-334: the nested candidate against the container bs[p]
NestedGhost(bs, p, col, row, widthCols, heightRows, type, draggedBlockId) ==
    LET potentialParent == bs[p]
        clamped == constrainToParent(Pos(col, widthCols, row, heightRows), potentialParent)
        siblingPositions ==
            {bs[k].position : k \in {m \in 1..Len(bs) :
                                        /\ bs[m].parentBlockId = potentialParent.id
                                        /\ bs[m].id # draggedBlockId}}
        tempPos == RepairOverlap(clamped, siblingPositions, StackDir(potentialParent))
        isTooSmall == tempPos.colSpan < MIN_CHILD_COLS \/ tempPos.rowSpan < MIN_CHILD_ROWS
        isOverlapping == checkOverlap(tempPos, siblingPositions)
    IN  [ghost |-> [present |-> TRUE, position |-> tempPos,
                    parentBlockId |-> potentialParent.id, type |-> type,
                    isValid |-> ~isTooSmall /\ ~isOverlapping, isRoot |-> FALSE],
         clamped |-> clamped]

\* mutant of MemberValid: without the boundary check
MemberValidNoBounds(bs, cols, ia, id, deltaCol, deltaRow) ==
    LET bInit == ia.initialPositions[id]
        target == [bInit EXCEPT !.colStart = bInit.colStart + deltaCol,
                                !.rowStart = bInit.rowStart + deltaRow]
        temp == [bs[FindIndex(bs, id)] EXCEPT !.position = target]
    IN  ~\E k \in 1..Len(bs) :
            /\ bs[k].id \notin DOMAIN ia.initialPositions
            /\ isBufferViolation(temp, bs[k])

\* lines 362-382: one moving member of a drag of existing blocks passes both checks
MemberValid(bs, cols, ia, id, deltaCol, deltaRow) ==
    LET bInit == ia.initialPositions[id]
        target == [bInit EXCEPT !.colStart = bInit.colStart + deltaCol,
                                !.rowStart = bInit.rowStart + deltaRow]
        temp == [bs[FindIndex(bs, id)] EXCEPT !.position = target]
    IN  /\ ~(\/ target.colStart < 1
             \/ target.colStart + target.colSpan - 1 > cols
             \/ target.rowStart < 1)
        /\ ~\E k \in 1..Len(bs) :
                /\ bs[k].id \notin DOMAIN ia.initialPositions
                /\ isBufferViolation(temp, bs[k])

\* lines 337-405: the root candidate
RootGhost(bs, cols, ia, col, row, widthCols, heightRows, type, draggedBlockId) ==
    LET clampedCol == Max(1, Min(cols - widthCols + 1, col))
        clampedRow == Max(1, row)
        primaryGhostPos == Pos(clampedCol, widthCols, clampedRow, heightRows)
        existing == ia.type = "DRAG" /\ draggedBlockId \in DOMAIN ia.initialPositions
        isGroupValid ==
            IF existing
            THEN LET init == ia.initialPositions[draggedBlockId]
                     deltaCol == clampedCol - init.colStart
                     deltaRow == clampedRow - init.rowStart
                 IN  \A id \in DOMAIN ia.initialPositions :
                        MemberValid(bs, cols, ia, id, deltaCol, deltaRow)
            ELSE LET tempBlock == Block(GhostId, type, primaryGhostPos, NoParent, "none")
                 IN  ~\E k \in 1..Len(bs) : isBufferViolation(tempBlock, bs[k])
    IN  [ghost |-> [present |-> TRUE, position |-> primaryGhostPos,
                    parentBlockId |-> NoParent, type |-> type,
                    isValid |-> isGroupValid, isRoot |-> TRUE],
         clamped |-> primaryGhostPos]

\* calculateGhost with the clamped candidate it started from: .ghost is what
\* setGhostBlock receives
calculateGhostRun(bs, cols, ia, col, row, widthCols, heightRows, type, draggedBlockId) ==
    LET p == IF type # HERO /\ ~IsMultiDrag(ia)
             THEN PotentialParent(bs, col, row, draggedBlockId) ELSE 0
    IN  IF p # 0
        THEN NestedGhost(bs, p, col, row, widthCols, heightRows, type, draggedBlockId)
        ELSE RootGhost(bs, cols, ia, col, row, widthCols, heightRows, type, draggedBlockId)

calculateGhost(bs, cols, ia, col, row, widthCols, heightRows, type, draggedBlockId) ==
    calculateGhostRun(bs, cols, ia, col, row, widthCols, heightRows, type,
                      draggedBlockId).ghost

----------------------------------------------------------------------------
(* App.tsx: the palette and the free-slot finder *)

PaletteTypes == {HERO, STATS}

\* COMPONENT_PALETTE: defaultCols and defaultRows of the modelled entries
defaultCols(type) == IF type = HERO THEN 12 ELSE IF type = STATS THEN 3 ELSE 6
defaultRows(type) == IF type = HERO THEN 10 ELSE IF type = STATS THEN 6 ELSE 10

SlotRowCap == 200

\* mutant of SlotOverlap: the rows are compared without the one-row buffer
SlotOverlapNoBuffer(currentBlocks, c, r, w, h) ==
    \E k \in 1..Len(currentBlocks) :
        LET b == currentBlocks[k]
            bStart == b.position.rowStart
            bEnd == b.position.rowStart + b.position.rowSpan - 1
        IN  /\ b.parentBlockId = NoParent
            /\ ~(c + w <= b.position.colStart
                 \/ c >= b.position.colStart + b.position.colSpan)
            /\ Max(r, bStart) <= Min(r + h - 1, bEnd)

\* the hasOverlap test of findFreeSlot for the candidate (c, r)
SlotOverlap(currentBlocks, c, r, w, h) ==
    \E k \in 1..Len(currentBlocks) :
        LET b == currentBlocks[k]
            bStart == b.position.rowStart
            bEnd == b.position.rowStart + b.position.rowSpan - 1
        IN  /\ b.parentBlockId = NoParent
            /\ ~(c + w <= b.position.colStart
                 \/ c >= b.position.colStart + b.position.colSpan)
            /\ Max(r, bStart - 1) <= Min(r + h - 1, bEnd + 1)

\* the two nested for loops: the first row from r on, below SlotRowCap, that
\* has a column without overlap, and the first such column of that row
ScanRows(currentBlocks, cols, w, h, r) ==
    LET free(x) == {c \in 1..(cols - w + 1) : ~SlotOverlap(currentBlocks, c, x, w, h)}
        rows == r..(SlotRowCap - 1)
    IN  IF \E x \in rows : free(x) # {}
        THEN LET row == CHOOSE x \in rows :
                            free(x) # {} /\ \A y \in r..(x - 1) : free(y) = {}
             IN  [found |-> TRUE, col |-> SetMin(free(row)), row |-> row]
        ELSE [found |-> FALSE]

\* mutant of findFreeSlot: the fallback row is taken from the lowest rowStart
\* instead of the lowest bottom edge
findFreeSlotFromStarts(currentBlocks, cols, w, h, startRow) ==
    LET scan == ScanRows(currentBlocks, cols, w, h, startRow)
        starts == {currentBlocks[k].position.rowStart : k \in 1..Len(currentBlocks)} \cup {1}
        maxRow == CHOOSE x \in starts : \A y \in starts : y <= x
    IN  IF scan.found THEN [col |-> scan.col, row |-> scan.row]
        ELSE [col |-> 1, row |-> maxRow + 1]

findFreeSlot(currentBlocks, cols, w, h, startRow) ==
    LET scan == ScanRows(currentBlocks, cols, w, h, startRow)
        ends == {currentBlocks[k].position.rowStart + currentBlocks[k].position.rowSpan
                    : k \in 1..Len(currentBlocks)} \cup {1}
        maxRow == CHOOSE x \in ends : \A y \in ends : y <= x
    IN  IF scan.found THEN [col |-> scan.col, row |-> scan.row]
        ELSE [col |-> 1, row |-> maxRow + 1]

----------------------------------------------------------------------------
(* geminiService.ts: the post-processing of the recognition service's answer. *)
(* An item of the answer is a record [type, colStart, colSpan, rowStart,      *)
(* rowSpan] of a block type and four integers (the response schema).          *)

\* mutant of containsBlock: only the child's top-left corner has to be inside
containsBlockCorner(parent, child) ==
    LET p == parent.position
        c == child.position
    IN  /\ c.colStart >= p.colStart
        /\ c.colStart < p.colStart + p.colSpan
        /\ c.rowStart >= p.rowStart
        /\ c.rowStart < p.rowStart + p.rowSpan

\* geminiService containsBlock
containsBlock(parent, child) ==
    LET p == parent.position
        c == child.position
    IN  /\ c.colStart >= p.colStart
        /\ c.colStart + c.colSpan <= p.colStart + p.colSpan
        /\ c.rowStart >= p.rowStart
        /\ c.rowStart + c.rowSpan <= p.rowStart + p.rowSpan

\* l.94-105: the DashboardBlock made of an item; x || d is d when x is 0
ItemBlock(item, id) ==
    Block(id, item.type,
          Pos(Max(1, Min(12, item.colStart)), Max(1, Min(12, item.colSpan)),
              IF item.rowStart = 0 THEN 1 ELSE item.rowStart,
              IF item.rowSpan = 0 THEN 4 ELSE item.rowSpan),
          NoParent, "none")

Area(b) == b.position.colSpan * b.position.rowSpan

\* l.109: blocks.sort by area, descending; the sort is stable
RECURSIVE InsertByArea(_, _)
InsertByArea(sorted, b) ==
    IF sorted = <<>> THEN <<b>>
    ELSE IF Area(b) > Area(Head(sorted)) THEN <<b>> \o sorted
    ELSE <<Head(sorted)>> \o InsertByArea(Tail(sorted), b)

RECURSIVE SortByArea(_)
SortByArea(bs) ==
    IF bs = <<>> THEN <<>>
    ELSE InsertByArea(SortByArea(SubSeq(bs, 1, Len(bs) - 1)), bs[Len(bs)])

\* l.126-137: the block at i takes the block at j as its child
Adopt(pb, i, j) ==
    [pb EXCEPT ![j].parentBlockId = pb[i].id,
               ![i].type = HERO,
               ![i].stackDirection =
                    IF pb[i].type # HERO \/ pb[i].stackDirection = "none"
                    THEN "horizontal" ELSE @]

\* l.121-139: the inner loop over j for the parent at i
RECURSIVE NestInner(_, _, _)
NestInner(pb, i, j) ==
    IF j > Len(pb) THEN pb
    ELSE IF i # j /\ pb[j].parentBlockId = NoParent /\ containsBlock(pb[i], pb[j])
    THEN NestInner(Adopt(pb, i, j), i, j + 1)
    ELSE NestInner(pb, i, j + 1)

\* l.114-141: the outer loop over i
RECURSIVE NestOuter(_, _)
NestOuter(pb, i) ==
    IF i > Len(pb) THEN pb
    ELSE LET parent == pb[i]
             isLargeEnough == parent.position.colSpan >= 3 /\ parent.position.rowSpan >= 3
             isHero == parent.type = HERO
         IN  IF isLargeEnough \/ isHero
             THEN NestOuter(NestInner(pb, i, 1), i + 1)
             ELSE NestOuter(pb, i + 1)

\* l.91-142: the blocks returned for the parsed answer; the block of the k-th
\* item gets the id firstId + k - 1 (the code draws a random UUID for each)
reconstructLayoutFromImage(items, firstId) ==
    NestOuter(SortByArea([k \in 1..Len(items) |-> ItemBlock(items[k], firstId + k - 1)]), 1)

----------------------------------------------------------------------------
(* The editor: state.blocks and the GridCanvas interaction state, from the    *)
(* empty project.  Operations other than pointer moves and the drop happen    *)
(* only while no drag is in progress.                                         *)

MaxBlocks == 3

\* blocks ever created in a behaviour (ids are never reused)
MaxId == 3

\* containers in the layout at once
MaxHeroes == 1

\* layout operations in a behaviour
MaxOps == 4

\* imports in one behaviour
MaxImports == 1

\* one more layout operation is carried out
CountOp == opCount < MaxOps /\ opCount' = opCount + 1

Heroes(bs) == {k \in 1..Len(bs) : bs[k].type = HERO}

\* the layout has room, within the bounds, for n more blocks of the type
Room(type, n) ==
    /\ Len(blocks) + n <= MaxBlocks
    /\ nextId + n - 1 <= MaxId
    /\ type = HERO => Cardinality(Heroes(blocks)) + n <= MaxHeroes

\* RESOLUTIONS[0].width, MARGIN_PX, GUTTER_PX
ResolutionWidth == 1920
MARGIN_PX == 80
GUTTER_PX == 24

Idle == interaction = NoInteraction /\ ghostBlock = NoGhost

Children(bs, id) == {bs[k].id : k \in {m \in 1..Len(bs) : bs[m].parentBlockId = id}}

\* App.tsx l.109: prev.slice(-19), the checkpoints kept below a new one
HistoryKept == 19

\* the HistoryData that saveCheckpoint, undo and redo make of the current state:
\* the blocks array is held by reference, as the objects behind its elements;
\* asSaved is a history field, the layout at the moment the record is made
HistoryData == [blocks |-> objs, gridColumns |-> gridColumns, asSaved |-> blocks]

\* App.tsx saveCheckpoint: setHistory(prev => [...prev.slice(-19), currentData])
saveCheckpoint(prev) ==
    SubSeq(prev, Max(1, Len(prev) - HistoryKept + 1), Len(prev)) \o <<HistoryData>>

\* the objects the arrays of a stack of HistoryData hold
Held(stack) ==
    UNION {{stack[k].blocks[m] : m \in 1..Len(stack[k].blocks)} : k \in 1..Len(stack)}

\* n new objects, none of them among used
RECURSIVE FreshRefs(_, _)
FreshRefs(used, n) ==
    IF n = 0 THEN <<>>
    ELSE LET r == CHOOSE x \in 1..(Cardinality(used) + 1) :
                      x \notin used /\ \A y \in 1..(x - 1) : y \in used
         IN  <<r>> \o FreshRefs(used \cup {r}, n - 1)

\* What a handler that stores the array blocks' does to the undo stack and to
\* the objects.  save: the handler calls saveCheckpoint first.  reused: the ids
\* whose element of the new array is the object the old array held (kept as it
\* is, or written to in place by moveBlock); every other element is a new
\* object ({...b, ...} or a new block).  An object outside the new array keeps
\* its value.
Recorded(save, reused) ==
    IF ~recording THEN UNCHANGED hvars
    ELSE LET h == IF save THEN saveCheckpoint(history) ELSE history
             f == IF save THEN <<>> ELSE future
             kept == {k \in 1..Len(blocks') :
                        blocks'[k].id \in reused \cap Ids(blocks)}
             Old(k) == objs[FindIndex(blocks, blocks'[k].id)]
             used == Held(h) \cup Held(f) \cup {Old(k) : k \in kept}
             fresh == FreshRefs(used, Len(blocks') - Cardinality(kept))
             Rank(k) == Cardinality({m \in 1..k : m \notin kept})
             o == [k \in 1..Len(blocks') |->
                      IF k \in kept THEN Old(k) ELSE fresh[Rank(k)]]
             live == used \cup {o[k] : k \in 1..Len(o)}
         IN  /\ history' = h
             /\ future' = f
             /\ objs' = o
             /\ heap' = [r \in live |->
                            IF \E k \in 1..Len(o) : o[k] = r
                            THEN blocks'[CHOOSE k \in 1..Len(o) : o[k] = r]
                            ELSE heap[r]]
             /\ UNCHANGED recording

\* a new DashboardBlock of handleAddBlock / handleDrop
NewBlock(id, type, pos, parent) ==
    Block(id, type, pos, parent, IF type = HERO THEN "horizontal" ELSE "none")

Init ==
    /\ blocks = <<>>
    /\ gridColumns = GRID_COLS
    /\ interaction = NoInteraction
    /\ ghostBlock = NoGhost
    /\ selectedBlockIds = {}
    /\ nextId = 1
    /\ dragStart = <<>>
    /\ opCount = 0
    /\ last = [op |-> "init"]
    /\ NotRecorded

\* App.tsx handleAddBlock
handleAddBlock(type) ==
    /\ Idle
    /\ Room(type, 1)
    /\ LET w == defaultCols(type)
           h == defaultRows(type)
           slot == findFreeSlot(blocks, gridColumns, w, h, 1)
           newBlock == NewBlock(nextId, type, Pos(slot.col, w, slot.row, h), NoParent)
       IN  /\ blocks' = Append(blocks, newBlock)
           /\ selectedBlockIds' = {newBlock.id}
           /\ nextId' = nextId + 1
           /\ last' = [op |-> "handleAddBlock"]
    /\ Recorded(TRUE, Ids(blocks))
    /\ CountOp
    /\ UNCHANGED <<gridColumns, interaction, ghostBlock, dragStart>>

\* GridCanvas handleDragOver: a palette item of the given type over the cell
handleDragOver(type, col, row) ==
    /\ interaction = NoInteraction
    /\ ghostBlock' = calculateGhost(blocks, gridColumns, interaction, col, row,
                                    defaultCols(type), defaultRows(type), type, GhostId)
    /\ ghostBlock' # ghostBlock
    /\ UNCHANGED <<blocks, gridColumns, interaction, selectedBlockIds, nextId, opCount,
                   dragStart, last>>
    /\ UNCHANGED hvars

\* GridCanvas handleDragLeave
handleDragLeave ==
    /\ interaction = NoInteraction
    /\ ghostBlock # NoGhost
    /\ ghostBlock' = NoGhost
    /\ UNCHANGED <<blocks, gridColumns, interaction, selectedBlockIds, nextId, opCount,
                   dragStart, last>>
    /\ UNCHANGED hvars

\* GridCanvas handleDrop, at the place of the last dragover (the ghost is set)
handleDrop ==
    /\ interaction = NoInteraction
    /\ ghostBlock # NoGhost
    /\ ghostBlock' = NoGhost
    /\ IF ~ghostBlock.isValid
       THEN /\ last' = [op |-> "handleDrop"]
            /\ UNCHANGED <<blocks, nextId, opCount>>
       ELSE LET newBlock == NewBlock(nextId, ghostBlock.type, ghostBlock.position,
                                     ghostBlock.parentBlockId)
                newBlocks == Append(blocks, newBlock)
            IN  /\ blocks' = moveBlock(newBlocks, {newBlock.id},
                                       (newBlock.id :> newBlock.position))
                /\ nextId' = nextId + 1
                /\ CountOp
                /\ last' = [op |-> "handleDrop"]
    /\ Recorded(ghostBlock.isValid, Ids(blocks))
    /\ UNCHANGED <<gridColumns, interaction, selectedBlockIds, dragStart>>

\* GridCanvas handleInteractionStart(e, blockId, type); modifier: e.shiftKey || e.ctrlKey
handleInteractionStart(blockId, type, modifier) ==
    /\ Idle
    /\ blockId \in Ids(blocks)
    /\ LET newSelectedIds ==
               IF blockId \in selectedBlockIds THEN selectedBlockIds
               ELSE IF modifier THEN selectedBlockIds \cup {blockId}
               ELSE {blockId}
           effectiveIdsToMove ==
               newSelectedIds \cup
               UNION {Children(blocks, blocks[k].id) :
                        k \in {m \in 1..Len(blocks) : /\ blocks[m].id \in newSelectedIds
                                                      /\ blocks[m].type = HERO}}
           keys == effectiveIdsToMove \cap Ids(blocks)
           initialPositions == [id \in keys |-> blocks[FindIndex(blocks, id)].position]
           isMultiSelection == Cardinality(effectiveIdsToMove) > 1
           hasRootInSelection ==
               \E id \in keys : blocks[FindIndex(blocks, id)].parentBlockId = NoParent
       IN  /\ selectedBlockIds' = newSelectedIds
           /\ interaction' =
                [type |-> type,
                 activeBlockId |-> blockId,
                 initialPositions |-> initialPositions,
                 hasMoved |-> FALSE,
                 selectionBounds |->
                    [minCol |-> SetMin({initialPositions[id].colStart : id \in keys}),
                     maxCol |-> SetMax({initialPositions[id].colStart
                                        + initialPositions[id].colSpan : id \in keys}),
                     minRow |-> SetMin({initialPositions[id].rowStart : id \in keys}),
                     maxRow |-> SetMax({initialPositions[id].rowStart
                                        + initialPositions[id].rowSpan : id \in keys})],
                 isRootDrag |-> type = "DRAG" /\ (hasRootInSelection \/ isMultiSelection)]
    /\ dragStart' = blocks
    /\ UNCHANGED <<blocks, gridColumns, ghostBlock, nextId, opCount, last>>
    /\ UNCHANGED hvars

\* the content width left to the columns: contentWidth - totalGutters (lines 222-225)
ColumnsWidth(cols) == ResolutionWidth - 2 * MARGIN_PX - (cols - 1) * GUTTER_PX

\* whole grid units between a block's left edge and its centre:
\* floor((colSpan * colWidth / 2) / (colWidth + GUTTER_PX)), colWidth = ColumnsWidth / cols
CenterColOffset(colSpan, cols) ==
    (colSpan * ColumnsWidth(cols)) \div (2 * (ColumnsWidth(cols) + cols * GUTTER_PX))

\* whole rows between the top of the canvas rows and a block's centre: a block is
\* drawn half a row below its rowStart (line 1400), and rows are ROW_HEIGHT high
CenterRowOffset(rowSpan) == (rowSpan + 1) \div 2

\* getGridFromPixels of the centre of the dragged block, the pointer being
\* (dc, dr) whole grid units away from where the drag started
CenterCell(init, cur, cols, dc, dr) ==
    [col |-> Max(1, Min(cols, init.colStart + dc + CenterColOffset(cur.colSpan, cols))),
     row |-> Max(1, init.rowStart + dr + CenterRowOffset(cur.rowSpan))]

\* lines 692-703: the new position of each target of a single-child drag
DragPositions(ia, cols, dc, dr) ==
    LET clampedColDelta == Max(1 - ia.selectionBounds.minCol,
                               Min(cols + 1 - ia.selectionBounds.maxCol, dc))
        clampedRowDelta == Max(1 - ia.selectionBounds.minRow, dr)
    IN  [id \in DOMAIN ia.initialPositions |->
            [ia.initialPositions[id] EXCEPT
                !.colStart = ia.initialPositions[id].colStart + clampedColDelta,
                !.rowStart = ia.initialPositions[id].rowStart + clampedRowDelta]]

\* lines 849-858: the overrides handed to moveBlock are the targets whose new
\* position differs from the current one
ChangedOnly(bs, newPos) ==
    LET changed == {id \in DOMAIN newPos : newPos[id] # bs[FindIndex(bs, id)].position}
    IN  [id \in changed |-> newPos[id]]

\* Math.round(n * (num / den)) for den > 0, in exact arithmetic
RoundScaled(n, num, den) == (2 * n * num + den) \div (2 * den)

\* interaction.initialPositions[child.id] || child.position
InitialOrCurrent(bs, ia, k) ==
    IF bs[k].id \in DOMAIN ia.initialPositions
    THEN ia.initialPositions[bs[k].id] ELSE bs[k].position

\* lines 773-779: the hero's children (indices of bs) sorted, stably, by their
\* initial colStart (horizontal) or rowStart (vertical)
SortedChildren(bs, ia, heroId, stackDir) ==
    LET ch == {k \in 1..Len(bs) : bs[k].parentBlockId = heroId}
        key(k) == IF stackDir = "horizontal" THEN InitialOrCurrent(bs, ia, k).colStart
                  ELSE InitialOrCurrent(bs, ia, k).rowStart
        rank(k) == 1 + Cardinality({m \in ch : \/ key(m) < key(k)
                                               \/ key(m) = key(k) /\ m < k})
    IN  [i \in 1..Cardinality(ch) |-> CHOOSE k \in ch : rank(k) = i]

\* lines 786-831: one child of the resized hero; h carries the hero's anchor,
\* new spans, initial position and the available sizes
ScaleChild(initChildPos, h, stackDir, previousEnd) ==
    IF stackDir = "horizontal"
    THEN LET initRelStart == initChildPos.colStart - h.init.colStart
             w0 == Max(MIN_CHILD_COLS,
                       RoundScaled(initChildPos.colSpan, h.curAvailableW, h.initAvailableW))
             h0 == Max(MIN_CHILD_ROWS,
                       RoundScaled(initChildPos.rowSpan, h.curAvailableH, h.initAvailableH))
             newRelHeight == IF h0 > h.curAvailableH THEN h.curAvailableH ELSE h0
             s0 == h.colStart + RoundScaled(initRelStart, h.curAvailableW, h.initAvailableW)
             newChildStart == IF s0 < previousEnd THEN previousEnd ELSE s0
             newRelWidth == IF newChildStart + w0 > h.colStart + h.newColSpan
                            THEN (h.colStart + h.newColSpan) - newChildStart ELSE w0
         IN  [pos |-> Pos(newChildStart, newRelWidth, h.rowStart + 1, newRelHeight),
              invalid |-> newRelWidth < MIN_CHILD_COLS,
              previousEnd |-> newChildStart + newRelWidth]
    ELSE LET initRelStart == initChildPos.rowStart - (h.init.rowStart + 1)
             h0 == Max(MIN_CHILD_ROWS,
                       RoundScaled(initChildPos.rowSpan, h.curAvailableH, h.initAvailableH))
             w0 == Max(MIN_CHILD_COLS,
                       RoundScaled(initChildPos.colSpan, h.curAvailableW, h.initAvailableW))
             newRelWidth == IF w0 > h.curAvailableW THEN h.curAvailableW ELSE w0
             s0 == h.rowStart + 1
                   + RoundScaled(initRelStart, h.curAvailableH, h.initAvailableH)
             newChildStart == IF s0 < previousEnd THEN previousEnd ELSE s0
             newRelHeight == IF newChildStart + h0 > h.rowStart + h.newRowSpan - 1
                             THEN (h.rowStart + h.newRowSpan - 1) - newChildStart ELSE h0
         IN  [pos |-> Pos(h.colStart, newRelWidth, newChildStart, newRelHeight),
              invalid |-> newRelHeight < MIN_CHILD_ROWS,
              previousEnd |-> newChildStart + newRelHeight]

\* sortedChildren.forEach(...): acc.updates is potentialChildrenUpdates
RECURSIVE ScaleChildren(_, _, _, _, _, _, _)
ScaleChildren(bs, ia, sorted, i, h, stackDir, acc) ==
    IF i > Len(sorted) THEN acc
    ELSE LET k == sorted[i]
             one == ScaleChild(InitialOrCurrent(bs, ia, k), h, stackDir, acc.previousEnd)
         IN  ScaleChildren(bs, ia, sorted, i + 1, h, stackDir,
                 [updates |-> (bs[k].id :> one.pos) @@ acc.updates,
                  resizeInvalid |-> acc.resizeInvalid \/ one.invalid,
                  previousEnd |-> one.previousEnd])

\* lines 704-846 for id = interaction.activeBlockId of a RESIZE: .skip is the
\* early return of an invalid proportional resize, .newPos the block's new
\* position, .children the updates of its children
ResizeActive(bs, ia, cols, dc, dr) ==
    LET id == ia.activeBlockId
        block == bs[FindIndex(bs, id)]
        initial == ia.initialPositions[id]
        span0 == Max(1, Min(cols - initial.colStart + 1, initial.colSpan + dc))
        minRows == IF block.type = HERO THEN MIN_HERO_ROWS ELSE MIN_CHILD_ROWS
        rows0 == Max(minRows, initial.rowSpan + dr)
        pk == IF block.parentBlockId = NoParent THEN 0
              ELSE FindIndex(bs, block.parentBlockId)
        span1 == IF pk = 0 THEN span0
                 ELSE Min(span0, (bs[pk].position.colStart + bs[pk].position.colSpan)
                                 - initial.colStart)
        rows1 == IF pk = 0 THEN rows0
                 ELSE Min(rows0, (bs[pk].position.rowStart + bs[pk].position.rowSpan - 1)
                                 - initial.rowStart)
    IN  IF block.type # HERO
        THEN [skip |-> FALSE, children |-> <<>>,
              newPos |-> [initial EXCEPT !.colSpan = span1, !.rowSpan = rows1]]
        ELSE
        LET stackDir == StackDir(block)
            nChildren == Cardinality(Children(bs, id))
            minRequiredWidth == IF nChildren = 0 THEN 5
                                ELSE IF stackDir = "horizontal"
                                THEN nChildren * MIN_CHILD_COLS ELSE MIN_CHILD_COLS
            minRequiredHeight == IF nChildren = 0 THEN 3
                                 ELSE IF stackDir = "horizontal"
                                 THEN MIN_CHILD_ROWS ELSE nChildren * MIN_CHILD_ROWS
            span2 == Max(minRequiredWidth, span1)
            newRowSpan == Max(minRequiredHeight, rows1)
            limits == {bs[k].position.colStart - initial.colStart :
                        k \in {m \in 1..Len(bs) :
                                /\ bs[m].id # id
                                /\ bs[m].parentBlockId = block.parentBlockId
                                /\ initial.rowStart < bs[m].position.rowStart
                                                      + bs[m].position.rowSpan
                                /\ initial.rowStart + newRowSpan > bs[m].position.rowStart
                                /\ initial.colStart + initial.colSpan
                                     <= bs[m].position.colStart}}
            newColSpan == SetMin(limits \cup {span2})
            h == [init |-> initial, colStart |-> initial.colStart,
                  rowStart |-> initial.rowStart,
                  newColSpan |-> newColSpan, newRowSpan |-> newRowSpan,
                  initAvailableW |-> Max(1, initial.colSpan),
                  initAvailableH |-> Max(1, initial.rowSpan),
                  curAvailableW |-> Max(1, newColSpan),
                  curAvailableH |-> Max(1, newRowSpan)]
            scaled == ScaleChildren(bs, ia, SortedChildren(bs, ia, id, stackDir), 1, h,
                          stackDir,
                          [updates |-> <<>>, resizeInvalid |-> FALSE,
                           previousEnd |-> IF stackDir = "horizontal"
                                           THEN initial.colStart
                                           ELSE initial.rowStart + 1])
        IN  [skip |-> scaled.resizeInvalid,
             children |-> IF scaled.resizeInvalid THEN <<>> ELSE scaled.updates,
             newPos |-> [initial EXCEPT !.colSpan = newColSpan, !.rowSpan = newRowSpan]]

\* mutant of ResizeRun: a rejected rescale still resizes the container
ResizeRunHeroAnyway(bs, ia, cols, dc, dr) ==
    LET active == ResizeActive(bs, ia, cols, dc, dr)
        own == {id \in DOMAIN ia.initialPositions :
                    bs[FindIndex(bs, id)].parentBlockId # ia.activeBlockId}
        newPos == [id \in own |-> IF id = ia.activeBlockId THEN active.newPos
                                  ELSE ia.initialPositions[id]]
        changed == ChangedOnly(bs, newPos)
    IN  [newPositions |-> changed @@ active.children,
         hasChanges |-> DOMAIN changed # {}]

\* lines 692-858 for a RESIZE: the overrides handed to moveBlock, and hasChanges
ResizeRun(bs, ia, cols, dc, dr) ==
    LET active == ResizeActive(bs, ia, cols, dc, dr)
        \* the targets the loop does not return early on, with their newPos
        own == {id \in DOMAIN ia.initialPositions :
                    /\ bs[FindIndex(bs, id)].parentBlockId # ia.activeBlockId
                    /\ ~(id = ia.activeBlockId /\ active.skip)}
        newPos == [id \in own |-> IF id = ia.activeBlockId THEN active.newPos
                                  ELSE ia.initialPositions[id]]
        changed == ChangedOnly(bs, newPos)
    IN  [newPositions |-> changed @@ active.children,
         hasChanges |-> DOMAIN changed # {}]

\* handleMove l.663-676: the candidate a tick at (dc, dr) leaves, the blocks
\* being bs
TickGhost(bs, ghost, ia, cols, dc, dr) ==
    LET k == FindIndex(bs, ia.activeBlockId)
        activeBlock == bs[k]
        cell == CenterCell(ia.initialPositions[ia.activeBlockId], activeBlock.position,
                           cols, dc, dr)
    IN  IF ia.type = "DRAG"
        THEN calculateGhost(bs, cols, ia, cell.col, cell.row,
                            activeBlock.position.colSpan,
                            activeBlock.position.rowSpan,
                            activeBlock.type, activeBlock.id)
        ELSE ghost

\* handleMove l.693-861: the newPositions a tick at (dc, dr) builds and its
\* hasChanges flag, the blocks being bs
TickRun(bs, ia, cols, dc, dr) ==
    IF ia.type = "DRAG"
    THEN LET np == ChangedOnly(bs, DragPositions(ia, cols, dc, dr))
         IN  [newPositions |-> np, hasChanges |-> DOMAIN np # {}]
    ELSE ResizeRun(bs, ia, cols, dc, dr)

\* l.680-682 and l.862-865: the array the tick stores
RunBlocks(bs, ia, run) ==
    IF ~ia.isRootDrag /\ run.hasChanges
    THEN moveBlock(bs, DOMAIN ia.initialPositions, run.newPositions)
    ELSE bs

\* the blocks of which the tick's moveBlock call puts a copy into the array
\* it returns (l.97), those with an entry in newPositions
RunCopies(ia, run) ==
    IF ~ia.isRootDrag /\ run.hasChanges THEN DOMAIN run.newPositions ELSE {}

\* handleMove l.678-865: the blocks a tick at (dc, dr) leaves, the blocks
\* being bs
TickBlocks(bs, ia, cols, dc, dr) == RunBlocks(bs, ia, TickRun(bs, ia, cols, dc, dr))

\* GridCanvas handleMove: the pointer is (dc, dr) whole grid units away from
\* where the interaction started
handleMove(dc, dr) ==
    /\ interaction # NoInteraction
    /\ opCount < MaxOps
    /\ interaction' = [interaction EXCEPT
                            !.hasMoved = interaction.hasMoved \/ dc # 0 \/ dr # 0]
    /\ ghostBlock' = TickGhost(blocks, ghostBlock, interaction, gridColumns, dc, dr)
    /\ \E run \in {TickRun(blocks, interaction, gridColumns, dc, dr)} :
          /\ blocks' = RunBlocks(blocks, interaction, run)
          /\ <<interaction', ghostBlock', blocks'>> # <<interaction, ghostBlock, blocks>>
          /\ IF recording
             THEN Recorded(~interaction.hasMoved /\ (dc # 0 \/ dr # 0),
                           Ids(blocks) \ RunCopies(interaction, run))
             ELSE UNCHANGED hvars
    /\ UNCHANGED <<gridColumns, selectedBlockIds, nextId, dragStart, opCount, last>>

\* mutant of RootCommit: only the active block is moved
RootCommitActiveOnly(bs, ia, ghost) ==
    LET k == FindIndex(bs, ia.activeBlockId)
    IN  [bs EXCEPT ![k].position = [bs[k].position EXCEPT
                                        !.colStart = ghost.position.colStart,
                                        !.rowStart = ghost.position.rowStart],
                   ![k].parentBlockId = ghost.parentBlockId]

\* lines 873-899: the commit of a root or group drag onto a valid ghost
RootCommit(bs, ia, ghost) ==
    LET initActive == ia.initialPositions[ia.activeBlockId]
        deltaCol == ghost.position.colStart - initActive.colStart
        deltaRow == ghost.position.rowStart - initActive.rowStart
    IN  [k \in 1..Len(bs) |->
            IF bs[k].id \in DOMAIN ia.initialPositions
            THEN LET init == ia.initialPositions[bs[k].id]
                 IN  [bs[k] EXCEPT
                        !.position = [bs[k].position EXCEPT
                                        !.colStart = init.colStart + deltaCol,
                                        !.rowStart = init.rowStart + deltaRow],
                        !.parentBlockId = IF bs[k].id = ia.activeBlockId
                                          THEN ghost.parentBlockId
                                          ELSE bs[k].parentBlockId]
            ELSE bs[k]]

\* lines 903-918: the end of a single-child drag
ChildCommit(bs, ia, ghost) ==
    IF ghost.present /\ ghost.isValid
    THEN LET targetId == ia.activeBlockId
             updatedBlocks ==
                [k \in 1..Len(bs) |->
                    IF bs[k].id = targetId
                    THEN [bs[k] EXCEPT !.position = ghost.position,
                                       !.parentBlockId = ghost.parentBlockId]
                    ELSE bs[k]]
         IN  moveBlock(updatedBlocks, {targetId}, <<>>)
    ELSE moveBlock(bs, {}, <<>>)

\* the blocks of which handleEnd puts a copy into the array it stores: the
\* moving blocks of a valid root commit (l.884-895), the target of a valid
\* child commit (l.908-912)
EndCopies(ia, ghost) ==
    IF ia.type = "DRAG" /\ ia.hasMoved /\ ghost.present /\ ghost.isValid
    THEN IF ia.isRootDrag THEN DOMAIN ia.initialPositions ELSE {ia.activeBlockId}
    ELSE {}

\* GridCanvas handleEnd
handleEnd ==
    /\ interaction # NoInteraction
    /\ LET ia == interaction
           dragged == ia.type = "DRAG" /\ ia.hasMoved
           valid == ghostBlock.present /\ ghostBlock.isValid
       IN  /\ blocks' = IF ~dragged THEN blocks
                        ELSE IF ia.isRootDrag
                        THEN IF valid THEN RootCommit(blocks, ia, ghostBlock) ELSE blocks
                        ELSE ChildCommit(blocks, ia, ghostBlock)
           /\ last' = IF ~ia.hasMoved THEN last
                       ELSE [op |-> "handleEnd",
                             type |-> ia.type,
                             isRootDrag |-> ia.isRootDrag,
                             valid |-> valid,
                             moved |-> DOMAIN ia.initialPositions,
                             changed |-> blocks' # blocks]
    /\ ghostBlock' = NoGhost
    /\ interaction' = NoInteraction
    /\ dragStart' = <<>>
    /\ opCount' = IF interaction.hasMoved THEN opCount + 1 ELSE opCount
    /\ Recorded(FALSE, Ids(blocks) \ EndCopies(interaction, ghostBlock))
    /\ UNCHANGED <<gridColumns, selectedBlockIds, nextId>>

\* the selected blocks that exist
SelectedBlocks == selectedBlockIds \cap Ids(blocks)

\* App.tsx performDelete(ids, deleteChildren), ids being the selection; the
\* dialog that offers to keep the children opens when a hero or a parent is deleted
performDelete(deleteChildren) ==
    /\ Idle
    /\ SelectedBlocks # {}
    /\ LET ids == selectedBlockIds
           asked == \E k \in 1..Len(blocks) :
                        \/ blocks[k].parentBlockId \in ids
                        \/ blocks[k].id \in ids /\ blocks[k].type = HERO
           kept == SelectSeq(blocks, LAMBDA b : b.id \notin ids)
           newBlocks ==
               IF deleteChildren
               THEN SelectSeq(kept, LAMBDA b : b.parentBlockId \notin ids)
               ELSE [k \in 1..Len(kept) |->
                        IF kept[k].parentBlockId \in ids
                        THEN [kept[k] EXCEPT !.parentBlockId = NoParent]
                        ELSE kept[k]]
       IN  /\ deleteChildren \/ asked
           /\ blocks' = newBlocks
           /\ last' = [op |-> "performDelete"]
    /\ Recorded(TRUE, IF deleteChildren THEN Ids(blocks)
                      ELSE Ids(blocks) \ UNION {Children(blocks, id) : id \in selectedBlockIds})
    /\ selectedBlockIds' = {}
    /\ CountOp
    /\ UNCHANGED <<gridColumns, interaction, ghostBlock, nextId, dragStart>>

\* App.tsx handleImportLayout, for the answer items of the recognition
\* service: the blocks made of it are appended to state.blocks
handleImportLayout(items) ==
    /\ Idle
    /\ opCount < MaxImports
    /\ blocks' = blocks \o reconstructLayoutFromImage(items, nextId)
    /\ nextId' = nextId + Len(items)
    /\ opCount' = opCount + 1
    /\ last' = [op |-> "handleImportLayout", before |-> blocks, items |-> items]
    /\ Recorded(TRUE, Ids(blocks))
    /\ UNCHANGED <<gridColumns, interaction, ghostBlock, selectedBlockIds, dragStart>>

\* the options of the column selector: COLUMN_OPTIONS
COLUMN_OPTIONS == {12, 16, 24}

\* App.tsx handleGridColumnsChange
handleGridColumnsChange(cols) ==
    /\ Idle
    /\ cols # gridColumns
    /\ gridColumns' = cols
    /\ last' = [op |-> "handleGridColumnsChange"]
    /\ CountOp
    /\ UNCHANGED <<blocks, interaction, ghostBlock, selectedBlockIds, nextId, dragStart>>
    /\ Recorded(TRUE, Ids(blocks))

\* App.tsx handleDuplicateBlocks: the copies of the selected blocks, made in the
\* order of the selection (here: of the ids), each placed against state.blocks
RECURSIVE DuplicatesOf(_, _, _, _)
DuplicatesOf(bs, cols, ids, firstId) ==
    IF ids = {} THEN <<>>
    ELSE LET id == SetMin(ids)
             original == bs[FindIndex(bs, id)]
             w == original.position.colSpan
             h == original.position.rowSpan
             slot == findFreeSlot(bs, cols, w, h, original.position.rowStart)
             newBlock == [original EXCEPT !.id = firstId,
                                          !.position = Pos(slot.col, w, slot.row, h),
                                          !.parentBlockId = NoParent]
         IN  <<newBlock>> \o DuplicatesOf(bs, cols, ids \ {id}, firstId + 1)

\* the handler's body; handleDuplicateBlocks below adds the bounds of Spec
DuplicateSelection ==
    /\ Idle
    /\ SelectedBlocks # {}
    /\ LET newBlocks == DuplicatesOf(blocks, gridColumns, SelectedBlocks, nextId)
           newIds == {newBlocks[k].id : k \in 1..Len(newBlocks)}
       IN  /\ blocks' = blocks \o newBlocks
           /\ selectedBlockIds' = newIds
           /\ nextId' = nextId + Len(newBlocks)
           /\ last' = [op |-> "handleDuplicateBlocks"]
    /\ Recorded(TRUE, Ids(blocks))
    /\ CountOp
    /\ UNCHANGED <<gridColumns, interaction, ghostBlock, dragStart>>

handleDuplicateBlocks ==
    /\ Room(STATS, Cardinality(SelectedBlocks))
    /\ \A id \in SelectedBlocks : blocks[FindIndex(blocks, id)].type = HERO => Room(HERO, 1)
    /\ DuplicateSelection

\* mutant of RestackHero: the children are laid out in array order, not in
\* the order of their positions along the distribution axis
RestackHeroUnsorted(bs, heroId) ==
    LET hk == FindIndex(bs, heroId)
        hero == bs[hk]
        heroPos == hero.position
        stackDirection == hero.stackDirection
        ch == {k \in 1..Len(bs) : bs[k].parentBlockId = heroId}
        count == Cardinality(ch)
        padding == 2
        minChildDim == 2
        newHeroColSpan ==
            IF stackDirection = "horizontal"
            THEN Max(5, Max(count * minChildDim + padding, heroPos.colSpan))
            ELSE Max(5, heroPos.colSpan)
        newHeroRowSpan ==
            IF stackDirection = "horizontal"
            THEN Max(3, heroPos.rowSpan)
            ELSE Max(3, Max(count * minChildDim + padding, heroPos.rowSpan))
        startX == heroPos.colStart + 1
        startY == heroPos.rowStart + 1
        availableWidth == Max(1, newHeroColSpan - 2)
        availableHeight == Max(1, newHeroRowSpan - 2)
        key(k) == IF stackDirection = "horizontal" THEN bs[k].position.colStart
                  ELSE bs[k].position.rowStart
        \* idx of a child in sortedChildren, from 0 (the sort is stable)
        idx(k) == Cardinality({m \in ch : m < k})
        baseWidth == availableWidth \div count
        remWidth == availableWidth % count
        baseHeight == availableHeight \div count
        remHeight == availableHeight % count
        \* currentX / currentY before the child of index i
        offset(i, base, rem) == i * base + Min(i, rem)
        childPos(k) ==
            IF stackDirection = "vertical"
            THEN Pos(startX, availableWidth,
                     startY + offset(idx(k), baseHeight, remHeight),
                     baseHeight + (IF idx(k) < remHeight THEN 1 ELSE 0))
            ELSE Pos(startX + offset(idx(k), baseWidth, remWidth),
                     baseWidth + (IF idx(k) < remWidth THEN 1 ELSE 0),
                     startY, availableHeight)
    IN  [k \in 1..Len(bs) |->
            IF k = hk
            THEN [bs[k] EXCEPT !.position = [heroPos EXCEPT !.colSpan = newHeroColSpan,
                                                           !.rowSpan = newHeroRowSpan]]
            ELSE IF k \in ch THEN [bs[k] EXCEPT !.position = childPos(k)]
            ELSE bs[k]]

\* mutant of RestackHero: the container is not enlarged to the size its
\* children need
RestackHeroNoGrow(bs, heroId) ==
    LET hk == FindIndex(bs, heroId)
        hero == bs[hk]
        heroPos == hero.position
        stackDirection == hero.stackDirection
        ch == {k \in 1..Len(bs) : bs[k].parentBlockId = heroId}
        count == Cardinality(ch)
        padding == 2
        minChildDim == 2
        newHeroColSpan == Max(5, heroPos.colSpan)
        newHeroRowSpan == Max(3, heroPos.rowSpan)
        startX == heroPos.colStart + 1
        startY == heroPos.rowStart + 1
        availableWidth == Max(1, newHeroColSpan - 2)
        availableHeight == Max(1, newHeroRowSpan - 2)
        key(k) == IF stackDirection = "horizontal" THEN bs[k].position.colStart
                  ELSE bs[k].position.rowStart
        \* idx of a child in sortedChildren, from 0 (the sort is stable)
        idx(k) == Cardinality({m \in ch : \/ key(m) < key(k)
                                          \/ key(m) = key(k) /\ m < k})
        baseWidth == availableWidth \div count
        remWidth == availableWidth % count
        baseHeight == availableHeight \div count
        remHeight == availableHeight % count
        \* currentX / currentY before the child of index i
        offset(i, base, rem) == i * base + Min(i, rem)
        childPos(k) ==
            IF stackDirection = "vertical"
            THEN Pos(startX, availableWidth,
                     startY + offset(idx(k), baseHeight, remHeight),
                     baseHeight + (IF idx(k) < remHeight THEN 1 ELSE 0))
            ELSE Pos(startX + offset(idx(k), baseWidth, remWidth),
                     baseWidth + (IF idx(k) < remWidth THEN 1 ELSE 0),
                     startY, availableHeight)
    IN  [k \in 1..Len(bs) |->
            IF k = hk
            THEN [bs[k] EXCEPT !.position = [heroPos EXCEPT !.colSpan = newHeroColSpan,
                                                           !.rowSpan = newHeroRowSpan]]
            ELSE IF k \in ch THEN [bs[k] EXCEPT !.position = childPos(k)]
            ELSE bs[k]]

\* lines 476-577: the layout of one hero's children after a change of its
\* stack direction; bs already carries the new direction
RestackHero(bs, heroId) ==
    LET hk == FindIndex(bs, heroId)
        hero == bs[hk]
        heroPos == hero.position
        stackDirection == hero.stackDirection
        ch == {k \in 1..Len(bs) : bs[k].parentBlockId = heroId}
        count == Cardinality(ch)
        padding == 2
        minChildDim == 2
        newHeroColSpan ==
            IF stackDirection = "horizontal"
            THEN Max(5, Max(count * minChildDim + padding, heroPos.colSpan))
            ELSE Max(5, heroPos.colSpan)
        newHeroRowSpan ==
            IF stackDirection = "horizontal"
            THEN Max(3, heroPos.rowSpan)
            ELSE Max(3, Max(count * minChildDim + padding, heroPos.rowSpan))
        startX == heroPos.colStart + 1
        startY == heroPos.rowStart + 1
        availableWidth == Max(1, newHeroColSpan - 2)
        availableHeight == Max(1, newHeroRowSpan - 2)
        key(k) == IF stackDirection = "horizontal" THEN bs[k].position.colStart
                  ELSE bs[k].position.rowStart
        \* idx of a child in sortedChildren, from 0 (the sort is stable)
        idx(k) == Cardinality({m \in ch : \/ key(m) < key(k)
                                          \/ key(m) = key(k) /\ m < k})
        baseWidth == availableWidth \div count
        remWidth == availableWidth % count
        baseHeight == availableHeight \div count
        remHeight == availableHeight % count
        \* currentX / currentY before the child of index i
        offset(i, base, rem) == i * base + Min(i, rem)
        childPos(k) ==
            IF stackDirection = "vertical"
            THEN Pos(startX, availableWidth,
                     startY + offset(idx(k), baseHeight, remHeight),
                     baseHeight + (IF idx(k) < remHeight THEN 1 ELSE 0))
            ELSE Pos(startX + offset(idx(k), baseWidth, remWidth),
                     baseWidth + (IF idx(k) < remWidth THEN 1 ELSE 0),
                     startY, availableHeight)
    IN  [k \in 1..Len(bs) |->
            IF k = hk
            THEN [bs[k] EXCEPT !.position = [heroPos EXCEPT !.colSpan = newHeroColSpan,
                                                           !.rowSpan = newHeroRowSpan]]
            ELSE IF k \in ch THEN [bs[k] EXCEPT !.position = childPos(k)]
            ELSE bs[k]]

\* App.tsx handleUpdateSelectedBlocks({heroProperties: {stackDirection}}), from
\* the Inspector's direction buttons, shown when the selection is one hero
handleUpdateSelectedBlocks(stackDirection) ==
    /\ Idle
    /\ Cardinality(SelectedBlocks) = 1
    /\ LET heroId == CHOOSE id \in SelectedBlocks : TRUE
           hk == FindIndex(blocks, heroId)
           updatedBlocks == [blocks EXCEPT ![hk].stackDirection = stackDirection]
       IN  /\ blocks[hk].type = HERO
           /\ blocks' = RestackHero(updatedBlocks, heroId)
           /\ last' = [op |-> "handleUpdateSelectedBlocks"]
    /\ Recorded(FALSE, Ids(blocks) \ (SelectedBlocks \cup
                        UNION {Children(blocks, id) : id \in SelectedBlocks}))
    /\ CountOp
    /\ UNCHANGED <<gridColumns, interaction, ghostBlock, selectedBlockIds, nextId,
                   dragStart>>

\* App.tsx undo: the last checkpoint becomes the state, the current state goes
\* to the front of future.  The state gets the checkpoint's array itself.
undo ==
    /\ Idle
    /\ recording
    /\ history # <<>>
    /\ LET previous == history[Len(history)]
       IN  /\ future' = <<HistoryData>> \o future
           /\ history' = SubSeq(history, 1, Len(history) - 1)
           /\ objs' = previous.blocks
           /\ blocks' = [k \in 1..Len(previous.blocks) |-> heap[previous.blocks[k]]]
           /\ gridColumns' = previous.gridColumns
           /\ last' = [op |-> "undo", asSaved |-> previous.asSaved]
    /\ UNCHANGED <<interaction, ghostBlock, selectedBlockIds, nextId, dragStart, opCount,
                   heap, recording>>

\* App.tsx redo: the first record of future becomes the state, the current
\* state goes back on top of history
redo ==
    /\ Idle
    /\ recording
    /\ future # <<>>
    /\ LET next == future[1]
       IN  /\ history' = Append(history, HistoryData)
           /\ future' = Tail(future)
           /\ objs' = next.blocks
           /\ blocks' = [k \in 1..Len(next.blocks) |-> heap[next.blocks[k]]]
           /\ gridColumns' = next.gridColumns
           /\ last' = [op |-> "redo", asSaved |-> next.asSaved]
    /\ UNCHANGED <<interaction, ghostBlock, selectedBlockIds, nextId, dragStart, opCount,
                   heap, recording>>

\* pointer samples: the grid cells a palette item is held over, or the centre of
\* the dragged block is brought to
PointerCols == {2, 11}
PointerRows == {5, 12}

\* the pointer displacement, in whole grid units, that brings the centre of the
\* active block of the drag in progress over the cell
DeltaTo(col, row) ==
    LET init == interaction.initialPositions[interaction.activeBlockId]
        cur == blocks[FindIndex(blocks, interaction.activeBlockId)].position
    IN  [dc |-> col - init.colStart - CenterColOffset(cur.colSpan, gridColumns),
         dr |-> row - init.rowStart - CenterRowOffset(cur.rowSpan)]

\* the column counts the selector is set to
ColumnChoices == {12, 16}

Next ==
    \/ \E type \in PaletteTypes : handleAddBlock(type)
    \/ \E type \in PaletteTypes, col \in PointerCols, row \in PointerRows :
            Room(type, 1) /\ handleDragOver(type, col, row)
    \/ handleDragLeave
    \/ handleDrop
    \/ \E id \in Ids(blocks), modifier \in BOOLEAN :
            handleInteractionStart(id, "DRAG", modifier)
    \/ \E col \in PointerCols, row \in PointerRows :
            /\ interaction # NoInteraction
            /\ handleMove(DeltaTo(col, row).dc, DeltaTo(col, row).dr)
    \/ handleEnd
    \/ \E deleteChildren \in BOOLEAN : performDelete(deleteChildren)
    \/ \E cols \in ColumnChoices : handleGridColumnsChange(cols)
    \/ handleDuplicateBlocks
    \/ \E dir \in {"horizontal", "vertical"} : handleUpdateSelectedBlocks(dir)

Spec == Init /\ [][Next]_vars

----------------------------------------------------------------------------
(* The resolver on bounded inputs: SpecResolver.                            *)
(* Init draws a layout of up to MaxInBlocks blocks: block 1 is a leaf or a  *)
(* container, the others are leaves that are roots or children of block 1.  *)
(* ResolverCall applies moveBlock with any moved set and at most one        *)
(* override.                                                                *)

MaxInBlocks == 3
MaxInCol == 2
MaxInRow == 2

\* root leaves: one column wide, anywhere in the first columns and rows
InLeafPositions ==
    {Pos(c, 1, r, h) : c \in 1..MaxInCol, r \in 1..MaxInRow, h \in 1..MaxInRow}

\* containers: over all the leaf columns, MIN_HERO_ROWS or more high
InHeroPositions ==
    {Pos(1, MaxInCol, 1, h) : h \in {MIN_HERO_ROWS, MIN_HERO_ROWS + 1}}

\* children start inside their container's rows, MIN_CHILD_ROWS or more high
InChildPositions ==
    {Pos(c, 1, r + 1, h) : c \in 1..MaxInCol, r \in 1..MaxInRow,
                           h \in {MIN_CHILD_ROWS, MIN_CHILD_ROWS + 1}}

InFirstBlocks ==
    {Block(1, STATS, p, NoParent, "none") : p \in InLeafPositions}
    \cup {Block(1, HERO, p, NoParent, d) : p \in InHeroPositions,
                                            d \in {"horizontal", "vertical"}}

InOtherBlocks(id, first) ==
    {Block(id, STATS, p, NoParent, "none") : p \in InLeafPositions}
    \cup (IF first.type = HERO
          THEN {Block(id, STATS, p, 1, "none") : p \in InChildPositions}
          ELSE {})

RECURSIVE InExtend(_, _)
InExtend(prefixes, n) ==
    IF n > MaxInBlocks THEN {}
    ELSE LET ext == UNION {{Append(p, b) : b \in InOtherBlocks(n, p[1])} : p \in prefixes}
         IN  ext \cup InExtend(ext, n + 1)

InLayouts ==
    LET singles == {<<f>> : f \in InFirstBlocks}
    IN  singles \cup InExtend(singles, 2)

\* a container with three children, the smallest family in which a child can
\* collide with two siblings
InFamilies ==
    {<<f, Block(2, STATS, p2, 1, "none"), Block(3, STATS, p3, 1, "none"),
       Block(4, STATS, p4, 1, "none")>> :
        f \in {g \in InFirstBlocks : g.type = HERO},
        p2 \in InChildPositions, p3 \in InChildPositions, p4 \in InChildPositions}

\* at most one override, for a moved block
InOverrides(moved) ==
    {<<>>} \cup {(id :> Pos(1, 1, 2, 3)) : id \in moved}

InitResolver ==
    /\ blocks \in InLayouts \cup InFamilies
    /\ gridColumns = GRID_COLS
    /\ interaction = NoInteraction
    /\ ghostBlock = NoGhost
    /\ selectedBlockIds = {}
    /\ nextId = 1
    /\ dragStart = <<>>
    /\ opCount = 0
    /\ last = [op |-> "init"]
    /\ NotRecorded

ResolverCall ==
    /\ last.op = "init"
    /\ \E moved \in SUBSET Ids(blocks) :
         \E newPositions \in InOverrides(moved) :
            LET run == moveBlockRun(blocks, moved, newPositions)
            IN  /\ blocks' = run.blocks
                /\ last' = [op |-> "moveBlock", before |-> blocks, moved |-> moved,
                            newPositions |-> newPositions,
                            converged |-> ~run.hasCollision,
                            iterations |-> run.iterations]
    /\ UNCHANGED <<gridColumns, interaction, ghostBlock, selectedBlockIds, nextId, opCount,
                   dragStart>>
    /\ UNCHANGED hvars

NextResolver == ResolverCall

SpecResolver == InitResolver /\ [][NextResolver]_vars

----------------------------------------------------------------------------
(* constrainToParent on bounded inputs: SpecConstrain.                      *)
(* The layout is one container and one child of it.  The container is of    *)
(* either stack direction and of any size from one column by one row (the   *)
(* Inspector's size fields accept every value from 1); the child is         *)
(* anywhere around it, smaller or larger than its interior.                 *)

MaxBoxCols == 3
MaxBoxRows == 5

BoxPositions ==
    {Pos(c, w, 1, h) : c \in 1..2, w \in 1..MaxBoxCols, h \in 1..MaxBoxRows}

BoxChildPositions ==
    {Pos(c, w, r, h) : c \in 1..(MaxBoxCols + 2), w \in 1..(MaxBoxCols + 1),
                       r \in 1..(MaxBoxRows + 2), h \in 1..(MaxBoxRows + 1)}

InitConstrain ==
    /\ blocks \in {<<Block(1, HERO, p, NoParent, d), Block(2, STATS, q, 1, "none")>> :
                        p \in BoxPositions, d \in {"horizontal", "vertical"},
                        q \in BoxChildPositions}
    /\ gridColumns = GRID_COLS
    /\ interaction = NoInteraction
    /\ ghostBlock = NoGhost
    /\ selectedBlockIds = {}
    /\ nextId = 3
    /\ dragStart = <<>>
    /\ opCount = 0
    /\ last = [op |-> "init"]
    /\ NotRecorded

\* the child is clamped against its container, as moveBlock's passes,
\* calculateGhost and handleDrop do
ConstrainCall ==
    /\ last.op = "init"
    /\ blocks' = [blocks EXCEPT ![2].position = constrainToParent(blocks[2].position, blocks[1])]
    /\ last' = [op |-> "constrainToParent", before |-> blocks[2].position]
    /\ UNCHANGED <<gridColumns, interaction, ghostBlock, selectedBlockIds, nextId, opCount,
                   dragStart>>
    /\ UNCHANGED hvars

NextConstrain == ConstrainCall

SpecConstrain == InitConstrain /\ [][NextConstrain]_vars

----------------------------------------------------------------------------
(* findFreeSlot on bounded inputs: SpecSlot.                                *)
(* The layout holds up to MaxSlotBlocks root blocks, half or all of a       *)
(* 12-column grid wide, 4 rows high or, from row 1, SlotRowCap rows high (a *)
(* block as high as the scan is long exhausts the row cap), or it is a      *)
(* container                                                                *)
(* with one child inside it and one child that moveBlock left below it.     *)
(* FindSlotCall places a new root block where findFreeSlot says, as         *)
(* handleAddBlock (startRow 1) and handleDuplicateBlocks (startRow the      *)
(* original's rowStart) do, up to MaxSlotCalls times in a row.              *)

MaxSlotBlocks == 2
MaxSlotCalls == 2

SlotRootPositions ==
    ({Pos(c, w, r, 4) : c \in {1, 7}, w \in {6, 12}, r \in {1, 3}}
        \ {Pos(7, 12, r, 4) : r \in {1, 3}})
    \cup {Pos(1, w, 1, SlotRowCap) : w \in {6, 12}}

RECURSIVE SlotExtend(_, _)
SlotExtend(prefixes, n) ==
    IF n > MaxSlotBlocks THEN {}
    ELSE LET ext == {Append(p, Block(n, STATS, q, NoParent, "none")) :
                        p \in prefixes, q \in SlotRootPositions}
         IN  ext \cup SlotExtend(ext, n + 1)

SlotLayouts ==
    {<<>>} \cup SlotExtend({<<>>}, 1)
    \cup {<<Block(1, HERO, Pos(1, 12, 1, 10), NoParent, "horizontal"),
            Block(2, STATS, Pos(1, 3, 10, 8), 1, "none"),
            Block(3, STATS, Pos(4, 3, 2, 8), 1, "none")>>}

\* the sizes asked for: a STATS tile, a HERO, and a 6 by 4 duplicate
SlotRequests == {<<3, 6>>, <<12, 10>>, <<6, 4>>}

SlotStartRows == {1, 3}

InitSlot ==
    /\ blocks \in SlotLayouts
    /\ gridColumns \in ColumnChoices
    /\ interaction = NoInteraction
    /\ ghostBlock = NoGhost
    /\ selectedBlockIds = {}
    /\ nextId = 4
    /\ dragStart = <<>>
    /\ opCount = 0
    /\ last = [op |-> "init"]
    /\ NotRecorded

FindSlotCall(w, h, startRow) ==
    /\ opCount < MaxSlotCalls
    /\ LET slot == findFreeSlot(blocks, gridColumns, w, h, startRow)
           newBlock == NewBlock(nextId, STATS, Pos(slot.col, w, slot.row, h), NoParent)
       IN  /\ blocks' = Append(blocks, newBlock)
           /\ selectedBlockIds' = {newBlock.id}
           /\ last' = [op |-> "findFreeSlot", before |-> blocks, w |-> w, h |-> h,
                       startRow |-> startRow, slot |-> slot]
    /\ nextId' = nextId + 1
    /\ opCount' = opCount + 1
    /\ UNCHANGED <<gridColumns, interaction, ghostBlock, dragStart>>
    /\ UNCHANGED hvars

NextSlot ==
    \E req \in SlotRequests, startRow \in SlotStartRows : FindSlotCall(req[1], req[2], startRow)

SpecSlot == InitSlot /\ [][NextSlot]_vars

----------------------------------------------------------------------------
(* The stack-direction toggle on bounded inputs: SpecRestack.               *)
(* The layout is one container, selected, with 1..MaxKids children.  The    *)
(* container is as narrow and as low as an interactive resize lets it get   *)
(* with that many children, or of the palette's size; the children are one  *)
(* column wide anywhere in its first columns and rows, so that two of them  *)
(* may share a start along either axis.                                     *)

MaxKids == 3

KidPositions == {Pos(c, 1, r, MIN_CHILD_ROWS) : c \in 1..3, r \in 2..4}

RECURSIVE KidExtend(_, _)
KidExtend(prefixes, n) ==
    IF n > MaxKids THEN {}
    ELSE LET ext == {Append(p, Block(n + 1, STATS, q, 1, "none")) :
                        p \in prefixes, q \in KidPositions}
         IN  ext \cup KidExtend(ext, n + 1)

RestackLayouts ==
    KidExtend({<<Block(1, HERO, Pos(1, w, 1, h), NoParent, d)>> :
                  w \in {3, 12}, h \in {MIN_HERO_ROWS, 10},
                  d \in {"horizontal", "vertical"}}, 1)

InitRestack ==
    /\ blocks \in RestackLayouts
    /\ gridColumns = GRID_COLS
    /\ interaction = NoInteraction
    /\ ghostBlock = NoGhost
    /\ selectedBlockIds = {1}
    /\ nextId = MaxKids + 2
    /\ dragStart = <<>>
    /\ opCount = 0
    /\ last = [op |-> "init"]
    /\ NotRecorded

NextRestack ==
    \E dir \in {"horizontal", "vertical"} : handleUpdateSelectedBlocks(dir)

SpecRestack == InitRestack /\ [][NextRestack]_vars

----------------------------------------------------------------------------
(* The ghost on layouts of three blocks: SpecGhost.  Each layout is one the   *)
(* editor reaches from the empty project (two drops into a container; a drop  *)
(* and an add; two drops and a switch to the vertical stack; three adds).     *)

GhostLayouts ==
    {<<Block(1, HERO, Pos(1, 12, 1, 10), NoParent, "horizontal"),
       Block(3, STATS, Pos(2, 3, 2, 8), 1, "none"),
       Block(2, STATS, Pos(10, 3, 2, 8), 1, "none")>>,
     <<Block(1, HERO, Pos(1, 12, 1, 10), NoParent, "horizontal"),
       Block(3, STATS, Pos(2, 3, 2, 8), 1, "none"),
       Block(2, STATS, Pos(1, 3, 12, 6), NoParent, "none")>>,
     <<Block(1, HERO, Pos(1, 12, 1, 10), NoParent, "vertical"),
       Block(2, STATS, Pos(2, 10, 2, 4), 1, "none"),
       Block(3, STATS, Pos(2, 10, 6, 4), 1, "none")>>,
     <<Block(1, STATS, Pos(1, 3, 1, 6), NoParent, "none"),
       Block(2, STATS, Pos(4, 3, 1, 6), NoParent, "none"),
       Block(3, STATS, Pos(7, 3, 1, 6), NoParent, "none")>>,
     <<Block(1, HERO, Pos(1, 12, 1, 10), NoParent, "horizontal"),
       Block(2, STATS, Pos(1, 3, 12, 6), NoParent, "none"),
       Block(3, STATS, Pos(4, 3, 12, 6), NoParent, "none")>>}

\* the cells the pointer is sampled at
GhostCols == {1, 3, 11}
GhostRows == {3, 5, 12}

InitGhost ==
    /\ blocks \in GhostLayouts
    /\ gridColumns = GRID_COLS
    /\ interaction = NoInteraction
    /\ ghostBlock = NoGhost
    /\ selectedBlockIds \in SUBSET Ids(blocks)
    /\ nextId = 4
    /\ dragStart = <<>>
    /\ opCount = 0
    /\ last = [op |-> "init"]
    /\ NotRecorded

NextGhost ==
    \/ \E type \in PaletteTypes, col \in GhostCols, row \in GhostRows :
            handleDragOver(type, col, row)
    \/ handleDragLeave
    \/ \E id \in Ids(blocks), modifier \in BOOLEAN :
            handleInteractionStart(id, "DRAG", modifier)
    \/ \E col \in GhostCols, row \in GhostRows :
            /\ interaction # NoInteraction
            /\ handleMove(DeltaTo(col, row).dc, DeltaTo(col, row).dr)

SpecGhost == InitGhost /\ [][NextGhost]_vars

----------------------------------------------------------------------------
(* Pointer ticks of one interaction, drag or resize: SpecTicks.  The layouts *)
(* are those of SpecGhost; the pointer is sampled at whole grid units away    *)
(* from where the button went down.                                           *)

TickCols == {-10, -4, 0, 2}
TickRows == {-5, 0, 3}

NextTicks ==
    \/ \E id \in Ids(blocks), type \in {"DRAG", "RESIZE"}, modifier \in BOOLEAN :
            handleInteractionStart(id, type, modifier)
    \/ \E dc \in TickCols, dr \in TickRows : handleMove(dc, dr)

SpecTicks == InitGhost /\ [][NextTicks]_vars

----------------------------------------------------------------------------
(* Imports: SpecIngest.  The project is empty or holds one of the layouts of  *)
(* SpecGhost; the recognition service answers with up to MaxItems items.  An  *)
(* item is a container or a tile on one of ItemRects: a large rectangle, one  *)
(* inside it, one inside that, one on the large rectangle's top row, and two  *)
(* with fields outside the grid or zero.                                      *)

MaxItems == 3

ItemRects ==
    {Pos(1, 12, 1, 10), Pos(2, 4, 2, 4), Pos(3, 1, 3, 2), Pos(2, 4, 1, 4),
     Pos(0, 13, 0, 0), Pos(14, 3, 1, 6)}

Items ==
    {[type |-> t, colStart |-> p.colStart, colSpan |-> p.colSpan,
      rowStart |-> p.rowStart, rowSpan |-> p.rowSpan] :
        t \in {HERO, STATS}, p \in ItemRects}

RECURSIVE ItemLists(_)
ItemLists(n) ==
    IF n = 0 THEN {<<>>}
    ELSE LET shorter == ItemLists(n - 1)
         IN  shorter \cup {Append(l, it) : l \in {x \in shorter : Len(x) = n - 1}, it \in Items}

InitIngest ==
    /\ blocks \in {<<>>} \cup GhostLayouts
    /\ gridColumns = GRID_COLS
    /\ interaction = NoInteraction
    /\ ghostBlock = NoGhost
    /\ selectedBlockIds = {}
    /\ nextId = 4
    /\ dragStart = <<>>
    /\ opCount = 0
    /\ last = [op |-> "init"]
    /\ NotRecorded

NextIngest == \E items \in ItemLists(MaxItems) : handleImportLayout(items)

SpecIngest == InitIngest /\ [][NextIngest]_vars

----------------------------------------------------------------------------
(* Undo and redo around pointer interactions: SpecUndo.  The layouts are     *)
(* those of SpecGhost, each block an object of its own, with an empty undo    *)
(* stack; the interactions are those of SpecTicks, ended by handleEnd.        *)

\* drags and resizes in one behaviour
MaxDrags == 1

InitUndo ==
    /\ blocks \in GhostLayouts
    /\ gridColumns = GRID_COLS
    /\ interaction = NoInteraction
    /\ ghostBlock = NoGhost
    /\ selectedBlockIds = {}
    /\ nextId = 4
    /\ dragStart = <<>>
    /\ opCount = 0
    /\ last = [op |-> "init"]
    /\ history = <<>>
    /\ future = <<>>
    /\ objs = [k \in 1..Len(blocks) |-> k]
    /\ heap = [k \in 1..Len(blocks) |-> blocks[k]]
    /\ recording = TRUE

NextUndo ==
    \/ \E id \in Ids(blocks), type \in {"DRAG", "RESIZE"}, modifier \in BOOLEAN :
            handleInteractionStart(id, type, modifier)
    \/ \E dc \in TickCols, dr \in TickRows : opCount < MaxDrags /\ handleMove(dc, dr)
    \/ handleEnd
    \/ undo
    \/ redo

SpecUndo == InitUndo /\ [][NextUndo]_vars

----------------------------------------------------------------------------
(* Duplicating a selection of one of the layouts of SpecGhost:              *)
(* SpecDuplicate.                                                           *)

NextDuplicate ==
    \/ \E id \in Ids(blocks), modifier \in BOOLEAN :
            handleInteractionStart(id, "DRAG", modifier)
    \/ handleEnd
    \/ Len(blocks) <= MaxBlocks /\ DuplicateSelection

SpecDuplicate == InitGhost /\ [][NextDuplicate]_vars

----------------------------------------------------------------------------
(* Deleting from an imported layout: SpecDelete.  A project is imported     *)
(* into the empty editor, blocks are selected by pointer-down and           *)
(* pointer-up without a move, and the selection is deleted.                 *)

NextDelete ==
    \/ \E items \in ItemLists(MaxItems) : handleImportLayout(items)
    \/ \E id \in Ids(blocks), modifier \in BOOLEAN :
            handleInteractionStart(id, "DRAG", modifier)
    \/ handleEnd
    \/ \E deleteChildren \in BOOLEAN : performDelete(deleteChildren)

SpecDelete == Init /\ [][NextDelete]_vars

----------------------------------------------------------------------------
(* Geometry used to state the properties, independent of the helpers above *)

Cols(pos) == pos.colStart .. (pos.colStart + pos.colSpan - 1)
Rows(pos) == pos.rowStart .. (pos.rowStart + pos.rowSpan - 1)

\* the two rectangles share a grid cell
Overlap(p, q) == (Cols(p) \cap Cols(q) # {}) /\ (Rows(p) \cap Rows(q) # {})

IsRoot(b) == b.parentBlockId = NoParent

\* two root blocks, or two children of the same container
SameLevel(a, b) == a.parentBlockId = b.parentBlockId

\* the container's interior: all its columns, its rows without the first and last
InInterior(pos, container) ==
    /\ Cols(pos) \subseteq Cols(container.position)
    /\ Rows(pos) \subseteq (container.position.rowStart + 1)
                           .. (container.position.rowStart + container.position.rowSpan - 2)

\* pairs of one level of bs that overlap and were not both in moved
LevelOverlaps(bs, moved) ==
    {<<i, j>> \in (1..Len(bs)) \X (1..Len(bs)) :
        /\ i < j
        /\ SameLevel(bs[i], bs[j])
        /\ ~(bs[i].id \in moved /\ bs[j].id \in moved)
        /\ Overlap(bs[i].position, bs[j].position)}

\* children of bs that have their container in bs and are not in its interior
Escaped(bs) ==
    {i \in 1..Len(bs) :
        /\ bs[i].parentBlockId # NoParent
        /\ FindIndex(bs, bs[i].parentBlockId) # 0
        /\ ~InInterior(bs[i].position, bs[FindIndex(bs, bs[i].parentBlockId)])}

----------------------------------------------------------------------------
(* Claims about the resolver, checked under SpecResolver *)

\* C1: when moveBlock returns after a pass that adjusted nothing, no two root
\* blocks and no two children of one container overlap on both axes, other
\* than pairs that were both in movedBlockIds.
C1_NoOverlapAfterConvergence ==
    (last.op = "moveBlock" /\ last.converged)
        => LevelOverlaps(blocks, last.moved) = {}

\* C1 witness: a converged call that had an overlap of one level to resolve
\* and needed more than one pass
C1_Witness ==
    /\ last.op = "moveBlock"
    /\ last.converged
    /\ last.iterations >= 2
    /\ LevelOverlaps(ApplyOverrides(last.before, last.newPositions), last.moved) # {}

\* C2 (as claimed): after moveBlock returns, every block whose parentBlockId
\* names an existing container lies inside that container's interior.
C2_ChildInsideParent ==
    last.op = "moveBlock" => Escaped(blocks) = {}

\* no two blocks of bs outside moved buffer-violate and every child of bs with
\* its container in bs lies in the container's interior
SettledBut(bs, moved) ==
    /\ \A i, j \in 1..Len(bs) :
          (i < j /\ bs[i].id \notin moved /\ bs[j].id \notin moved)
              => ~isBufferViolation(bs[i], bs[j])
    /\ Escaped(bs) = {}

\* C26: on a layout in which no two non-moved blocks buffer-violate and every
\* child lies in its parent's interior, moveBlock with a single moved block
\* leaves its loop because a pass adjusted nothing, not at the 100-pass cap.
C26_SingleMoveConverges ==
    (/\ last.op = "moveBlock"
     /\ Cardinality(last.moved) = 1
     /\ SettledBut(ApplyOverrides(last.before, last.newPositions), last.moved))
        => last.converged

\* the position of every block, by id
PositionOf(bs) == [id \in Ids(bs) |-> bs[FindIndex(bs, id)].position]

\* C11 (as claimed): resolving an already resolved layout again, with nothing
\* moved and no overrides, gives every block the position it already has.
C11_ResolveIdempotent ==
    (last.op = "moveBlock" /\ last.moved = {} /\ last.newPositions = <<>>)
        => PositionOf(moveBlock(blocks, {}, <<>>)) = PositionOf(blocks)

\* C12 (as claimed): compared with the layout right after the overrides are
\* applied, the layout moveBlock returns has every block in the same columns
\* with the same rowSpan, and at the same rowStart or a greater one.
C12_OnlyRowStartGrows ==
    last.op = "moveBlock" =>
        LET applied == PositionOf(ApplyOverrides(last.before, last.newPositions))
            result == PositionOf(blocks)
        IN  \A id \in Ids(blocks) :
                /\ result[id].colStart = applied[id].colStart
                /\ result[id].colSpan = applied[id].colSpan
                /\ result[id].rowSpan = applied[id].rowSpan
                /\ result[id].rowStart >= applied[id].rowStart

\* C12, amended: a block that has no parent keeps the columns and the rowSpan
\* it has once the overrides are applied, and its rowStart never ends above
\* the one it had then (the passes re-clamp only children).
C12_RootsOnlyPushedDown ==
    last.op = "moveBlock" =>
        LET applied == ApplyOverrides(last.before, last.newPositions)
            result == PositionOf(blocks)
        IN  \A k \in 1..Len(applied) :
                IsRoot(applied[k]) =>
                    /\ result[applied[k].id].colStart = applied[k].position.colStart
                    /\ result[applied[k].id].colSpan = applied[k].position.colSpan
                    /\ result[applied[k].id].rowSpan = applied[k].position.rowSpan
                    /\ result[applied[k].id].rowStart >= applied[k].position.rowStart

\* C12 witness: a call that pushed a root block down
C12_Witness ==
    /\ last.op = "moveBlock"
    /\ \E k \in 1..Len(last.before) :
          /\ IsRoot(last.before[k])
          /\ PositionOf(blocks)[last.before[k].id].rowStart
                > PositionOf(ApplyOverrides(last.before, last.newPositions))[last.before[k].id].rowStart

\* C21 (as claimed): moveBlock is a pure transformation.  After a call, every
\* block of the input array holds the values it held before the call, and so
\* does every position object passed in newPositions (checked for the
\* overrides of blocks without a parent, whose object the loop never
\* replaces).
C21_ResolverLeavesInputsAlone ==
    last.op = "moveBlock" =>
        /\ moveBlockInput(last.before, last.moved, last.newPositions) = last.before
        /\ \A id \in DOMAIN moveBlockOverrides(last.before, last.moved, last.newPositions) :
                moveBlockOverrides(last.before, last.moved, last.newPositions)[id]
                    = last.newPositions[id]

----------------------------------------------------------------------------
(* Claims about constrainToParent, checked under SpecConstrain *)

\* C13: clamping a child that was just clamped against the same container
\* leaves it where it is.
C13_ConstrainIdempotent ==
    last.op = "constrainToParent"
        => constrainToParent(blocks[2].position, blocks[1]) = blocks[2].position

\* C13 witness: the first clamp changed both the child's start and its size
C13_Witness ==
    /\ last.op = "constrainToParent"
    /\ blocks[2].position.rowStart # last.before.rowStart
    /\ blocks[2].position.rowSpan # last.before.rowSpan
    /\ blocks[2].position.colStart # last.before.colStart
    /\ blocks[2].position.colSpan # last.before.colSpan

\* C14 (as claimed): the clamped child of a vertical container has the
\* container's colStart and colSpan; the clamped child of a horizontal one has
\* rowStart = container rowStart + 1 and rowSpan = container rowSpan - 2; and
\* in both the child ends no later than the container's last interior row
\* and last column.
C14_ForcedAndClamped ==
    last.op = "constrainToParent" =>
        LET c == blocks[1].position
            r == blocks[2].position
        IN  /\ blocks[1].stackDirection = "vertical"
                  => (r.colStart = c.colStart /\ r.colSpan = c.colSpan)
            /\ blocks[1].stackDirection = "horizontal"
                  => (r.rowStart = c.rowStart + 1 /\ r.rowSpan = c.rowSpan - 2)
            /\ r.rowStart + r.rowSpan - 1 <= c.rowStart + c.rowSpan - 2
            /\ r.colStart + r.colSpan - 1 <= c.colStart + c.colSpan - 1

----------------------------------------------------------------------------
(* Claims about findFreeSlot, checked under SpecSlot *)

\* the root blocks of bs that the rectangle touches, each root block taken
\* with `buffer` more rows above and below
RootsTouched(bs, rect, buffer) ==
    {k \in 1..Len(bs) :
        /\ IsRoot(bs[k])
        /\ Overlap(rect, Pos(bs[k].position.colStart, bs[k].position.colSpan,
                             bs[k].position.rowStart - buffer,
                             bs[k].position.rowSpan + 2 * buffer))}

\* C15: the anchor findFreeSlot returns has no candidate before it, in
\* row-major order over the rows startRow..SlotRowCap-1 and the columns
\* 1..gridColumns-w+1, whose rectangle keeps one row clear of every root
\* block; and when the anchor is one of the scanned rows, it is such a
\* candidate itself.  Nested blocks do not count.
C15_FirstFreeSlot ==
    last.op = "findFreeSlot" =>
        LET slot == last.slot
            scanned == {<<r, c>> \in (last.startRow .. Min(slot.row, SlotRowCap - 1))
                                      \X (1 .. (gridColumns - last.w + 1)) :
                           r < slot.row \/ c < slot.col}
        IN  /\ \A rc \in scanned :
                  RootsTouched(last.before, Pos(rc[2], last.w, rc[1], last.h), 1) # {}
            /\ slot.row < SlotRowCap =>
                  /\ slot.row >= last.startRow
                  /\ slot.col \in 1 .. (gridColumns - last.w + 1)
                  /\ RootsTouched(last.before, Pos(slot.col, last.w, slot.row, last.h), 1) = {}

\* C15 witness: the anchor is neither in the first row nor in the first
\* column, and the rectangle lies over a nested block
C15_Witness ==
    /\ last.op = "findFreeSlot"
    /\ last.slot.row < SlotRowCap
    /\ \/ last.slot.row > last.startRow /\ last.slot.col > 1
       \/ \E k \in 1..Len(last.before) :
             /\ ~IsRoot(last.before[k])
             /\ Overlap(last.before[k].position,
                        Pos(last.slot.col, last.w, last.slot.row, last.h))

\* C16: the rectangle placed at the anchor findFreeSlot returns overlaps no
\* root block, also when no scanned row was free; so root blocks that do not
\* overlap each other still do not after the new block is added.
C16_SlotNeverOverlaps ==
    last.op = "findFreeSlot" =>
        /\ RootsTouched(last.before, blocks[Len(blocks)].position, 0) = {}
        /\ LevelOverlaps(SelectSeq(last.before, IsRoot), {}) = {}
              => LevelOverlaps(SelectSeq(blocks, IsRoot), {}) = {}

\* C16 witness: the row cap was exhausted and the fallback anchor was used
C16_Witness ==
    /\ last.op = "findFreeSlot"
    /\ last.slot.row >= SlotRowCap
    /\ last.before # <<>>

----------------------------------------------------------------------------
(* Claims about the stack-direction toggle, checked under SpecRestack *)

\* a step of handleUpdateSelectedBlocks
ToggleStep == opCount' = opCount + 1 /\ last'.op = "handleUpdateSelectedBlocks"

\* the container the toggle acts on, and the ids of its children
ToggledId == CHOOSE id \in selectedBlockIds : TRUE
Kids(bs) == {bs[k].id : k \in {m \in 1..Len(bs) : bs[m].parentBlockId = ToggledId}}

\* start and extent of a position along the distribution axis of a direction
AxisStart(pos, dir) == IF dir = "vertical" THEN pos.rowStart ELSE pos.colStart
AxisSpan(pos, dir) == IF dir = "vertical" THEN pos.rowSpan ELSE pos.colSpan
AxisCells(pos, dir) == AxisStart(pos, dir) .. (AxisStart(pos, dir) + AxisSpan(pos, dir) - 1)

\* C17: after a toggle the children of the container tile its interior along
\* the distribution axis (from the unit after the container's first to the
\* unit before its last, span - 2 units): their intervals are pairwise
\* disjoint and cover it exactly; each extent is floor(extent/n) or that plus
\* one, exactly (extent mod n) children have the larger one and they come
\* first; and a child that started before another along that axis prior to
\* the toggle still comes before it.
C17_ChildrenTileInterior ==
    [][ToggleStep =>
        LET before == PositionOf(blocks)
            after == PositionOf(blocks')
            dir == blocks'[FindIndex(blocks', ToggledId)].stackDirection
            kids == Kids(blocks')
            n == Cardinality(kids)
            first == AxisStart(after[ToggledId], dir) + 1
            extent == AxisSpan(after[ToggledId], dir) - 2
        IN  n >= 1 =>
              /\ \A a \in kids, b \in kids :
                    a # b => AxisCells(after[a], dir) \cap AxisCells(after[b], dir) = {}
              /\ UNION {AxisCells(after[a], dir) : a \in kids} = first .. (first + extent - 1)
              /\ \A a \in kids : AxisSpan(after[a], dir) \in {extent \div n, extent \div n + 1}
              /\ Cardinality({a \in kids : AxisSpan(after[a], dir) = extent \div n + 1})
                    = extent % n
              /\ \A a \in kids, b \in kids :
                    AxisStart(after[a], dir) < AxisStart(after[b], dir)
                        => AxisSpan(after[a], dir) >= AxisSpan(after[b], dir)
              /\ \A a \in kids, b \in kids :
                    AxisStart(before[a], dir) < AxisStart(before[b], dir)
                        => AxisStart(after[a], dir) < AxisStart(after[b], dir)
    ]_vars

\* C17 witness: three children in a container of rowSpan 10, stacked
\* vertically, with the heights 3, 3 and 2
C17_Witness ==
    /\ last.op = "handleUpdateSelectedBlocks"
    /\ Cardinality(Kids(blocks)) = 3
    /\ blocks[1].stackDirection = "vertical"
    /\ blocks[1].position.rowSpan = 10
    /\ {<<blocks[k].position.rowStart, blocks[k].position.rowSpan>> : k \in 2..Len(blocks)}
          = {<<2, 3>>, <<5, 3>>, <<8, 2>>}

\* C18: a toggle leaves the container at least as wide and as high as it
\* was, at least n*2+2 units long along the distribution axis for n children,
\* and every child at least 2 units long along that axis.
C18_ToggleOnlyEnlarges ==
    [][ToggleStep =>
        LET old == PositionOf(blocks)[ToggledId]
            new == PositionOf(blocks')[ToggledId]
            dir == blocks'[FindIndex(blocks', ToggledId)].stackDirection
            kids == Kids(blocks')
        IN  /\ new.colSpan >= old.colSpan
            /\ new.rowSpan >= old.rowSpan
            /\ AxisSpan(new, dir) >= Cardinality(kids) * 2 + 2
            /\ \A a \in kids : AxisSpan(PositionOf(blocks')[a], dir) >= 2
    ]_vars

\* C18 witness: a toggle has enlarged the container to hold three children
C18_Witness ==
    /\ last.op = "handleUpdateSelectedBlocks"
    /\ Cardinality(Kids(blocks)) = 3
    /\ blocks[1].stackDirection = "vertical"
    /\ blocks[1].position.rowSpan = 3 * 2 + 2

----------------------------------------------------------------------------
(* Claims about pointer ticks, checked under SpecTicks *)

\* a resize of a container that has children is under way
ResizingContainer ==
    /\ interaction # NoInteraction
    /\ interaction.type = "RESIZE"
    /\ Children(blocks, interaction.activeBlockId) # {}

\* the positions of the resized container and of its children in bs
FamilyPositions(bs) ==
    [id \in {interaction.activeBlockId} \cup Children(blocks, interaction.activeBlockId)
        |-> bs[FindIndex(bs, id)].position]

\* the pointer sample (dc, dr) is one whose rescale the tick rejects
Rejected(dc, dr) == ResizeActive(blocks, interaction, gridColumns, dc, dr).skip

\* C19: a tick of a container resize is all or nothing.  When the rescale of
\* the children is rejected, the container and every child keep the positions
\* they had before the tick; when it is accepted and the container's size
\* changes, the layout of the tick is the resolver's result for overrides
\* holding the container's new size together with every child's rescaled
\* position.
C19_ResizeTickAllOrNothing ==
    [][\A dc \in TickCols, dr \in TickRows :
        (ResizingContainer /\ handleMove(dc, dr)) =>
            LET id == interaction.activeBlockId
                act == ResizeActive(blocks, interaction, gridColumns, dc, dr)
                run == ResizeRun(blocks, interaction, gridColumns, dc, dr)
            IN  IF act.skip
                THEN FamilyPositions(blocks') = FamilyPositions(blocks)
                ELSE \/ blocks' = blocks
                     \/ /\ {id} \cup Children(blocks, id) \subseteq DOMAIN run.newPositions
                        /\ run.newPositions[id] = act.newPos
                        /\ \A c \in Children(blocks, id) :
                                run.newPositions[c] = act.children[c]
                        /\ blocks' = moveBlock(blocks, DOMAIN interaction.initialPositions,
                                               run.newPositions)]_vars

\* a container resize that has accepted a tick (the container is no longer as
\* wide or as tall as at the start) and for which some sample is rejected
C19_Witness ==
    /\ ResizingContainer
    /\ interaction.hasMoved
    /\ LET id == interaction.activeBlockId
           now == blocks[FindIndex(blocks, id)].position
           was == interaction.initialPositions[id]
       IN  now.colSpan # was.colSpan \/ now.rowSpan # was.rowSpan
    /\ \E dc \in TickCols, dr \in TickRows : Rejected(dc, dr)

\* what a tick at the sample (dc, dr) makes of the blocks bs: the layout and
\* the candidate
TickOutcome(bs, dc, dr) ==
    LET after == TickBlocks(bs, interaction, gridColumns, dc, dr)
    IN  [layout |-> [id \in Ids(after) |->
                        LET b == after[FindIndex(after, id)]
                        IN  [position |-> b.position, parentBlockId |-> b.parentBlockId]],
         candidate |-> TickGhost(bs, ghostBlock, interaction, gridColumns, dc, dr)]

\* C20: every tick is computed from the snapshot taken when the interaction
\* started.  Whatever samples came before, a tick at a given pointer sample
\* ends with the layout and the candidate that the same sample gives as the
\* first tick after the start.
C20_TickFromSnapshot ==
    interaction # NoInteraction =>
        \A dc \in TickCols, dr \in TickRows :
            TickOutcome(blocks, dc, dr) = TickOutcome(dragStart, dc, dr)

----------------------------------------------------------------------------
(* Claims about imports, checked under SpecIngest *)

\* the blocks the last import appended
Imported == SubSeq(blocks, Len(last.before) + 1, Len(blocks))

\* the item a block of the last import was made of
ItemOf(b) == last.items[b.id - (nextId - Len(last.items)) + 1]

\* the imported blocks that b names as its parent
ParentsOf(b) == {k \in 1..Len(Imported) : Imported[k].id = b.parentBlockId}

C23_ImportIsResolved ==
    last.op = "handleImportLayout" =>
        /\ \A i, j \in 1..Len(blocks) :
                (/\ i > Len(last.before)
                 /\ i # j
                 /\ IsRoot(blocks[i])
                 /\ IsRoot(blocks[j]))
                    => ~Overlap(blocks[i].position, blocks[j].position)
        /\ \A i \in Escaped(blocks) : i <= Len(last.before)

\* C25: nesting never exceeds one container depth: after any sequence of
\* palette drops, drag commits and ingests no block that has a parentBlockId is
\* itself the parentBlockId of another block, so there is no parent cycle.
C25_OneContainerDepth ==
    \A k \in 1..Len(blocks) :
        blocks[k].parentBlockId # NoParent =>
            \A m \in 1..Len(blocks) : blocks[m].parentBlockId # blocks[k].id

----------------------------------------------------------------------------
(* Claims about undo and redo, checked under SpecUndo.                      *)

\* the layout as the set of its blocks' id, position and parent
LayoutOf(bs) ==
    {[id |-> bs[k].id, position |-> bs[k].position,
      parentBlockId |-> bs[k].parentBlockId] : k \in 1..Len(bs)}

\* C30: after an operation that saved a checkpoint and then changed the
\* layout, undo restores blocks whose ids, positions and parentIds are those
\* of the moment the checkpoint was saved, and a redo that follows restores
\* the layout that was current before the undo.
C30_UndoRestoresCheckpoint ==
    [][/\ undo => LayoutOf(blocks') = LayoutOf(history[Len(history)].asSaved)
       /\ redo => LayoutOf(blocks') = LayoutOf(future[1].asSaved)]_vars

----------------------------------------------------------------------------
(* Claims about deletion, checked under SpecDelete.                         *)

\* what the claim promises of a delete of ids that turns bs into out
DeletePost(bs, ids, deleteChildren, out) ==
    LET deleted == Ids(bs) \ Ids(out)
        Old(id) == bs[FindIndex(bs, id)]
        New(id) == out[FindIndex(out, id)]
    IN  /\ Ids(out) \cap ids = {}
        /\ \A k \in 1..Len(out) : out[k].parentBlockId \notin deleted
        /\ \A k \in 1..Len(bs) :
              LET b == bs[k]
              IN  IF b.id \in ids THEN TRUE
                  ELSE IF b.parentBlockId \in ids
                  THEN IF deleteChildren THEN b.id \notin Ids(out)
                       ELSE /\ b.id \in Ids(out)
                            /\ New(b.id).parentBlockId = NoParent
                            /\ New(b.id).position = b.position
                  ELSE b.id \in Ids(out) /\ New(b.id) = b

\* C24: after performDelete(ids, deleteChildren) no remaining block has an id
\* in ids and no remaining block's parentBlockId refers to a deleted block;
\* with deleteChildren the direct children of the deleted blocks are removed,
\* without it they stay with parentBlockId cleared and their position, and
\* every other block is unchanged.
C24_DeleteLeavesNoDanglingParent ==
    [][\A deleteChildren \in BOOLEAN :
          performDelete(deleteChildren) =>
              DeletePost(blocks, selectedBlockIds, deleteChildren, blocks')]_vars

----------------------------------------------------------------------------
(* Claims about the editor, checked under Spec *)

\* C29: the output of the stack-direction redistribution is a fixed point of
\* the resolver's containment re-clamp: after a direction toggle, moveBlock
\* with no moved blocks leaves every child of that container at exactly the
\* position and size the redistribution assigned.
C29_RestackIsResolverFixedPoint ==
    last.op = "handleUpdateSelectedBlocks" =>
        LET heroId == CHOOSE id \in SelectedBlocks : TRUE
            resolved == moveBlock(blocks, {}, <<>>)
        IN  \A id \in Children(blocks, heroId) :
                resolved[FindIndex(resolved, id)].position
                    = blocks[FindIndex(blocks, id)].position

\* C28: duplicating a selection places every copy as a root block at a slot
\* that overlaps neither an existing root block nor any other copy created by
\* the same duplicate operation.
C28_CopiesOverlapNothing ==
    [][DuplicateSelection =>
        LET copies == {k \in 1..Len(blocks') : k > Len(blocks)}
        IN  \A k \in copies :
              /\ IsRoot(blocks'[k])
              /\ \A m \in 1..Len(blocks) :
                    IsRoot(blocks[m]) => ~Overlap(blocks'[k].position, blocks[m].position)
              /\ \A m \in copies \ {k} :
                    ~Overlap(blocks'[k].position, blocks'[m].position)]_vars

\* parentBlockId of every block of bs, by id
ParentOf(bs) == [id \in Ids(bs) |-> bs[FindIndex(bs, id)].parentBlockId]

\* C27: a valid group drag commit (more than one moving block) leaves the
\* parentBlockId of every moving member unchanged, whichever member is the
\* active block.
C27_GroupCommitKeepsParents ==
    [][(/\ handleEnd
        /\ interaction.type = "DRAG"
        /\ interaction.hasMoved
        /\ IsMultiDrag(interaction)
        /\ ghostBlock.present /\ ghostBlock.isValid)
       => \A id \in DOMAIN interaction.initialPositions :
              ParentOf(blocks')[id] = ParentOf(blocks)[id]]_vars

\* every block's columns are columns of the grid
InGrid(bs, cols) ==
    \A k \in 1..Len(bs) :
        /\ 1 <= bs[k].position.colStart
        /\ bs[k].position.colStart + bs[k].position.colSpan - 1 <= cols

\* the ids the last operation moved at once
LastMoved == IF last.op = "handleEnd" THEN last.moved ELSE {}

\* this step is handleEnd ending a drag that moved the pointer
EndsDrag ==
    /\ interaction # NoInteraction
    /\ interaction' = NoInteraction
    /\ interaction.type = "DRAG"
    /\ interaction.hasMoved

GhostValid == ghostBlock.present /\ ghostBlock.isValid

\* C3 (as claimed): whenever no interaction is in progress, that is after every
\* committed operation, every block has 1 <= colStart and
\* colStart + colSpan - 1 <= gridColumns.
C3_ColumnsInGrid == Idle => InGrid(blocks, gridColumns)

\* C4 (as claimed): from the empty layout, after any sequence of add, palette
\* drop, drag commit, stack-direction toggle and delete, no two root blocks and
\* no two children of one container overlap, pairs the last operation moved
\* together excepted.
C4_NoLevelOverlap == Idle => LevelOverlaps(blocks, LastMoved) = {}

\* C5 (as claimed): a drag that ends on an invalid candidate leaves the ids,
\* positions and parents of the layout as they were when the drag started.
C5_InvalidEndReverts ==
    [][(EndsDrag /\ ~GhostValid) => LayoutOf(blocks') = LayoutOf(dragStart)]_vars

\* C6 (as claimed): a drag of a single block that ends on a valid candidate
\* leaves the active block with the candidate's position and parent.
C6_CommitsCandidate ==
    [][(EndsDrag /\ GhostValid /\ Cardinality(DOMAIN interaction.initialPositions) = 1)
        => LET b == blocks'[FindIndex(blocks', interaction.activeBlockId)]
           IN  /\ b.position = ghostBlock.position
               /\ b.parentBlockId = ghostBlock.parentBlockId]_vars

\* C7: a group drag that ends on a valid candidate translates every moving
\* member from its drag-start position by one shared delta, spans unchanged,
\* and leaves every other block, and the order of the array, as they were.
C7_RigidGroupCommit ==
    [][(EndsDrag /\ GhostValid /\ Cardinality(DOMAIN interaction.initialPositions) > 1)
        => LET a == FindIndex(dragStart, interaction.activeBlockId)
               deltaCol == blocks'[a].position.colStart - dragStart[a].position.colStart
               deltaRow == blocks'[a].position.rowStart - dragStart[a].position.rowStart
           IN  /\ Len(blocks') = Len(dragStart)
               /\ \A k \in 1..Len(dragStart) :
                    /\ blocks'[k].id = dragStart[k].id
                    /\ IF dragStart[k].id \in DOMAIN interaction.initialPositions
                       THEN blocks'[k].position =
                                [dragStart[k].position EXCEPT
                                    !.colStart = @ + deltaCol, !.rowStart = @ + deltaRow]
                       ELSE blocks'[k] = dragStart[k]]_vars

\* C7 witness: a group of two or more blocks was committed elsewhere while
\* another block stayed
C7_Witness ==
    /\ last.op = "handleEnd"
    /\ last.isRootDrag /\ last.valid /\ last.changed
    /\ Cardinality(last.moved) >= 2
    /\ \E k \in 1..Len(blocks) : blocks[k].id \notin last.moved

----------------------------------------------------------------------------
(* Claims about the candidate, checked under SpecGhost *)

\* this step computed the candidate ghostBlock' from blocks: a pointer move of
\* a drag, or a palette item held over the canvas
DragTick ==
    /\ interaction # NoInteraction
    /\ interaction' # NoInteraction
    /\ interaction.type = "DRAG"

PaletteTick ==
    /\ interaction = NoInteraction
    /\ interaction' = NoInteraction
    /\ ghostBlock' # ghostBlock

NestedCandidate == (DragTick \/ PaletteTick) /\ ghostBlock'.present /\ ~ghostBlock'.isRoot

\* what is dragged: its id (none of the blocks' for a palette item) and spans
DraggedId == IF interaction # NoInteraction THEN interaction.activeBlockId ELSE GhostId

DraggedColSpan ==
    IF interaction # NoInteraction
    THEN blocks[FindIndex(blocks, interaction.activeBlockId)].position.colSpan
    ELSE defaultCols(ghostBlock'.type)

DraggedRowSpan ==
    IF interaction # NoInteraction
    THEN blocks[FindIndex(blocks, interaction.activeBlockId)].position.rowSpan
    ELSE defaultRows(ghostBlock'.type)

\* the block, placed at pos, violates the other: they overlap and neither is
\* the other's container
Violates(b, pos, other) ==
    /\ b.parentBlockId # other.id
    /\ other.parentBlockId # b.id
    /\ Overlap(pos, other.position)

\* a moving member, translated by the delta that takes the active block to the
\* candidate, is in the grid and violates no block that stays
MemberFits(id) ==
    LET active == interaction.initialPositions[interaction.activeBlockId]
        init == interaction.initialPositions[id]
        pos == [init EXCEPT
                  !.colStart = @ + ghostBlock'.position.colStart - active.colStart,
                  !.rowStart = @ + ghostBlock'.position.rowStart - active.rowStart]
    IN  /\ pos.colStart >= 1
        /\ pos.colStart + pos.colSpan - 1 <= gridColumns
        /\ pos.rowStart >= 1
        /\ \A k \in 1..Len(blocks) :
                blocks[k].id \notin DOMAIN interaction.initialPositions
                    => ~Violates(blocks[FindIndex(blocks, id)], pos, blocks[k])

\* C8: the root candidate of a drag of existing blocks is valid exactly when
\* every moving member, translated by the group delta, is inside the grid
\* columns, at row 1 or below, and violates no non-moving block.
C8_RootValidity ==
    [][(DragTick /\ ghostBlock'.present /\ ghostBlock'.isRoot)
        => (ghostBlock'.isValid
              <=> \A id \in DOMAIN interaction.initialPositions : MemberFits(id))]_vars

\* C8 witness: a group candidate that is invalid because a member other than
\* the active block would leave the grid on the right
C8_Witness ==
    /\ interaction # NoInteraction
    /\ interaction.isRootDrag
    /\ ghostBlock.present /\ ghostBlock.isRoot /\ ~ghostBlock.isValid
    /\ \E id \in DOMAIN interaction.initialPositions \ {interaction.activeBlockId} :
            LET active == interaction.initialPositions[interaction.activeBlockId]
                init == interaction.initialPositions[id]
            IN  init.colStart + ghostBlock.position.colStart - active.colStart
                    + init.colSpan - 1 > gridColumns

\* the siblings the nested candidate must not overlap: the children of its
\* container other than the dragged block
CandidateSiblings ==
    {k \in 1..Len(blocks) : /\ blocks[k].parentBlockId = ghostBlock'.parentBlockId
                            /\ blocks[k].id # DraggedId}

\* C9: a nested candidate marked valid lies in its container's interior,
\* overlaps no other child of the container, and has colSpan >= 1, rowSpan >= 3.
C9_ValidNestedCandidate ==
    [][(NestedCandidate /\ ghostBlock'.isValid)
        => /\ InInterior(ghostBlock'.position,
                         blocks[FindIndex(blocks, ghostBlock'.parentBlockId)])
           /\ \A k \in CandidateSiblings :
                    ~Overlap(ghostBlock'.position, blocks[k].position)
           /\ ghostBlock'.position.colSpan >= MIN_CHILD_COLS
           /\ ghostBlock'.position.rowSpan >= MIN_CHILD_ROWS]_vars

\* C9 witness: a palette item over a container gets a valid candidate that the
\* repair shrank to end where the next child starts
C9_Witness ==
    /\ interaction = NoInteraction
    /\ ghostBlock.present /\ ~ghostBlock.isRoot /\ ghostBlock.isValid
    /\ ghostBlock.position.colSpan < defaultCols(ghostBlock.type)
    /\ \E k \in 1..Len(blocks) :
            /\ blocks[k].parentBlockId = ghostBlock.parentBlockId
            /\ blocks[k].position.colStart
                    = ghostBlock.position.colStart + ghostBlock.position.colSpan

\* the span of the dragged block along the stack's free axis once clamped into
\* the container: its own span, at most the container's interior
ClampedFreeSpan(container) ==
    IF StackDir(container) = "vertical"
    THEN Min(DraggedRowSpan, Max(1, container.position.rowSpan - 2))
    ELSE Min(DraggedColSpan, Max(1, container.position.colSpan))

FreeSpan(pos, container) ==
    IF StackDir(container) = "vertical" THEN pos.rowSpan ELSE pos.colSpan

\* C10 (as claimed): the nested candidate's span along the free axis of the
\* stack is never larger than the clamped span it had before the repair.
C10_RepairOnlyShrinks ==
    [][NestedCandidate
        => LET container == blocks[FindIndex(blocks, ghostBlock'.parentBlockId)]
           IN  FreeSpan(ghostBlock'.position, container) <= ClampedFreeSpan(container)]_vars

====
